---- MODULE Spec2Model ----
(***************************************************************************)
(* Live control loops, instance registry and MT5 gate of MasstTrader       *)
(* (backend/api/main.py, backend/services/mt5_connector.py).               *)
(*                                                                         *)
(* A slot of Inst holds one AlgoInstance together with the request         *)
(* handler that creates it and the thread that runs _algo_loop on it.      *)
(* pc[i] is the position of that handler or thread:                        *)
(*   none       no instance in the slot                                    *)
(*   checked    algo_start passed the registry check (lock released)       *)
(*   rejected   algo_start raised "Algo already running"                   *)
(*   select .. final_close   the provider call the thread is at            *)
(*   top        the tick boundary: stop_ev.wait and the while test         *)
(*   deals      inside the ungated deal-history read                       *)
(*   dereg      the tail of the finally block                              *)
(* A thread at a gate site is inside the provider call exactly when it     *)
(* holds _mt5_global_lock (lock = i); before that it waits for the lock.   *)
(***************************************************************************)
EXTENDS Integers, FiniteSets, Sequences, TLC

\* ---------------------------------------------------------------- bounds
MaxTickets == 2
MaxBars == 4

\* ------------------------------------------------------------- universes
Inst == {"i1", "i2"}
Symbols == {"EURUSDm", "BTCUSDm"}
NoInst == "-"
NoSym == "-"
NoTicket == 0
Tickets == 1..MaxTickets
SSE == "sse"
Free == "free"

\* A stored strategy as far as the loop and the validator read its first
\* rule: entry/exit = the condition list is non-empty, sl = stop_loss_pips or
\* stop_loss_atr_multiplier is set.
Guarded == [entry |-> TRUE, exit |-> TRUE, sl |-> TRUE]
Unlimited == [entry |-> TRUE, exit |-> FALSE, sl |-> FALSE]
Strategies == {Guarded, Unlimited}
NoStrategy == [entry |-> FALSE, exit |-> FALSE, sl |-> FALSE]

VARIABLES
    pc,               \* slot -> position of its handler / loop thread
    sym,              \* slot -> symbol of the instance
    strategy,         \* slot -> strategy handed to _algo_loop
    stop_event,       \* slot -> instance.stop_event
    running,          \* slot -> state["running"]
    in_position,      \* slot -> state["in_position"]
    position_ticket,  \* slot -> state["position_ticket"]
    trade_id,         \* slot -> state["current_algo_trade_id"] is set
    trade_state,      \* slot -> state["trade_state"]
    algo_instances,   \* the registry: symbol -> slot
    connected,        \* connector is not None and connector.is_connected
    lock,             \* holder of _mt5_global_lock
    reqPc,            \* the synchronous /api/mt5/* handler: idle or call
    posSym,           \* provider: ticket -> symbol of the open position
    nextTicket,       \* provider: next order id
    statusPc,         \* the algo_status handler: idle or iterating the registry
    bars_in_trade,    \* slot -> bars_in_trade of _algo_loop
    last_candle_time, \* slot -> last_candle_time of _algo_loop
    signals,          \* slot -> the signals of the last tick's decisions
    condition,        \* evaluate_condition: the condition passed
    row,              \* the candle row evaluated (df.iloc[i], df.iloc[-1])
    prev_row,         \* evaluate_condition: the previous row passed
    result,           \* evaluate_condition: what the call produced
    rule_configs,     \* run_backtest: the rule list
    bar,              \* run_backtest: the loop index i
    sim,              \* run_backtest: the locals of the bar loop
    trades,           \* run_backtest: the trade ledger
    df,               \* run_backtest: the frame of a backtest that is repeated
    initial_balance,  \* run_backtest: argument
    risk_per_trade,   \* run_backtest: argument
    balance,          \* run_backtest: the running balance
    equity_curve,     \* run_backtest: one balance per bar
    returned,         \* what the calls of run_backtest returned, in order
    deals,            \* _determine_exit_reason: the deal history it reads
    determined,       \* _determine_exit_reason: what the call returned
    ml_model,         \* ml_filter: the model file behind load_model
    lstm_model,       \* lstm_predictor: the model file behind load_lstm_model
    ml_confidence,    \* slot -> state["ml_confidence"]
    lstm_result,      \* slot -> lstm_result of _algo_loop
    sizing,           \* _calculate_lot_size: the arguments of the call
    actual_volume     \* _calculate_lot_size: what the call returned

vars == << pc, sym, strategy, stop_event, running, in_position,
           position_ticket, trade_id, trade_state, algo_instances, connected,
           lock,
           reqPc, posSym, nextTicket, statusPc, bars_in_trade,
           last_candle_time, signals, condition, row, prev_row, result, rule_configs,
           bar, sim, trades, df, initial_balance, risk_per_trade, balance,
           equity_curve, returned, deals, determined, ml_model, lstm_model,
           ml_confidence, lstm_result, sizing, actual_volume >>

loopVars == << in_position, position_ticket, trade_id, trade_state >>
provVars == << posSym, nextTicket >>
\* The candle bookkeeping of a tick. Spec and RegistrySpec take the outcome
\* of the tick's evaluation as the input sig of HistoryReturn and leave
\* these alone; LiveTick computes it.
tickVars == << bars_in_trade, last_candle_time, signals >>
evalVars == << condition, prev_row, result >>
simVars == << rule_configs, bar, sim, trades >>
\* The arguments of a backtest, its money and what it returned.
argVars == << df, initial_balance, risk_per_trade >>
runVars == << argVars, balance, equity_curve, returned >>
\* The arguments and the result of a call of _determine_exit_reason.
exitVars == << deals, determined >>
\* The scoring models and what the entry gate of a tick got from them.
modelVars == << ml_model, lstm_model >>
scoreVars == << ml_confidence, lstm_result >>
\* The arguments and the result of a call of _calculate_lot_size.
sizeVars == << sizing, actual_volume >>
\* What the threads of the live service never touch.
offline ==
    << tickVars, evalVars, row, simVars, runVars, exitVars, modelVars,
       scoreVars, sizeVars >>

\* ------------------------------------------- candle rows and conditions
\* A candle row is a function from the columns of its frame to numbers; NaN
\* is a number outside Levels and is never compared before pd.isna has
\* excluded it, except where the code compares it (every comparison with
\* NaN is false). Prices are counted in pips (0.0001), so that
\* (a - b) * 10000 is a - b.
Levels == 0..2
NaN == -1
Closes == 1..2
EvalColumns == {"close", "RSI_14"}
Columns == {"close", "RSI_14", "ATR_14"}
NoRow == [c \in {} |-> NaN]

\* condition["value"]: a number, a string, None, or no such key.
Num(n) == [kind |-> "num", num |-> n, name |-> ""]
Str(x) == [kind |-> "str", num |-> 0, name |-> x]
None == [kind |-> "none", num |-> 0, name |-> ""]
NoValue == [kind |-> "absent", num |-> 0, name |-> ""]
Absent == "absent"
NoCondition ==
    [indicator |-> Absent, parameter |-> Absent, operator |-> Absent,
     value |-> NoValue]

\* _resolve_column: the entries of the mapping that name columns of the
\* frames above, the raw OHLCV names, the names that contain "_", and the
\* fallback f"{indicator}_{parameter}", which names no column of a frame.
resolve_column(indicator, parameter) ==
    IF indicator = "RSI" /\ parameter = "value" THEN "RSI_14"
    ELSE IF indicator = "ATR" /\ parameter = "value" THEN "ATR_14"
    ELSE IF indicator = "EMA" /\ parameter = "value" THEN "EMA_50"
    ELSE IF indicator \in {"open", "high", "low", "close", "volume"}
         THEN indicator
    ELSE IF indicator \in {"RSI_14", "ATR_14", "EMA_50"} THEN indicator
    ELSE "indicator_parameter"

\* float(target_value) of a string: the number it spells, or ValueError.
NumericStrings == {"0", "1", "2"}
float(x) == IF x = "0" THEN 0 ELSE IF x = "1" THEN 1 ELSE 2

\* Comparisons of pandas scalars: false when either side is NaN.
Gt(a, b) == a # NaN /\ b # NaN /\ a > b
Lt(a, b) == a # NaN /\ b # NaN /\ a < b
Ge(a, b) == a # NaN /\ b # NaN /\ a >= b
Le(a, b) == a # NaN /\ b # NaN /\ a <= b

Bool(b) == IF b THEN "true" ELSE "false"

\* (variant: ">" holds only when the previous row was not above the target)
compare_GtReadsPrev(operator, current_val, target_num, prev, prev_val, prev_target) ==
    IF operator = ">"
    THEN Bool(current_val > target_num /\ prev /\ Le(prev_val, prev_target))
    ELSE IF operator = "<" THEN Bool(current_val < target_num)
    ELSE IF operator = "==" THEN Bool(current_val = target_num)
    ELSE IF operator = "crosses_above"
         THEN Bool(prev /\ Le(prev_val, prev_target)
                        /\ current_val > target_num)
    ELSE IF operator = "crosses_below"
         THEN Bool(prev /\ Ge(prev_val, prev_target)
                        /\ current_val < target_num)
    ELSE "false"

\* (variant: a cross needs the previous value strictly on the other side)
compare_StrictCross(operator, current_val, target_num, prev, prev_val, prev_target) ==
    IF operator = ">" THEN Bool(current_val > target_num)
    ELSE IF operator = "<" THEN Bool(current_val < target_num)
    ELSE IF operator = "==" THEN Bool(current_val = target_num)
    ELSE IF operator = "crosses_above"
         THEN Bool(prev /\ Lt(prev_val, prev_target)
                        /\ current_val > target_num)
    ELSE IF operator = "crosses_below"
         THEN Bool(prev /\ Gt(prev_val, prev_target)
                        /\ current_val < target_num)
    ELSE "false"

\* The operator chain of evaluate_condition on numbers that are not NaN;
\* prev: "prev_row is not None and col in prev_row.index", in which case
\* prev_val and prev_target are the previous row's value and target.
\* abs(a - b) < 1e-8 is a = b on the levels of the frames.
compare(operator, current_val, target_num, prev, prev_val, prev_target) ==
    IF operator = ">" THEN Bool(current_val > target_num)
    ELSE IF operator = "<" THEN Bool(current_val < target_num)
    ELSE IF operator = "==" THEN Bool(current_val = target_num)
    ELSE IF operator = "crosses_above"
         THEN Bool(prev /\ Le(prev_val, prev_target)
                        /\ current_val > target_num)
    ELSE IF operator = "crosses_below"
         THEN Bool(prev /\ Ge(prev_val, prev_target)
                        /\ current_val < target_num)
    ELSE "false"

\* evaluate_condition(row, prev_row, condition): "true" / "false" for the
\* returned bool, or the exception that leaves the function.
evaluate_condition(r, p, c) ==
    IF c.indicator = Absent \/ c.operator = Absent
          \/ c.value.kind = "absent"
    THEN "KeyError"
    ELSE
    LET parameter == IF c.parameter = Absent THEN "value" ELSE c.parameter
        col == resolve_column(c.indicator, parameter)
        target_col == resolve_column(c.value.name, "value")
    IN  IF col \notin DOMAIN r THEN "false"
        ELSE IF r[col] = NaN THEN "false"
        ELSE IF c.value.kind = "str" /\ target_col \notin DOMAIN r
                 /\ c.value.name \notin NumericStrings
             THEN "false"
        ELSE IF c.value.kind = "none" THEN "TypeError"
        ELSE
        LET target_num ==
                IF c.value.kind = "str"
                THEN IF target_col \in DOMAIN r THEN r[target_col]
                     ELSE float(c.value.name)
                ELSE c.value.num
            prev == col \in DOMAIN p
            prev_val == IF prev THEN p[col] ELSE NaN
            prev_target ==
                IF c.value.kind = "str" /\ target_col \in DOMAIN p
                THEN p[target_col] ELSE target_num
        IN  IF target_num = NaN THEN "false"
            ELSE compare(c.operator, r[col], target_num, prev, prev_val,
                         prev_target)

\* all(evaluate_condition(row, prev_row, cond) for cond in conds)
all_met(conds, r, p) ==
    \A k \in 1..Len(conds) : evaluate_condition(r, p, conds[k]) = "true"

\* ------------------------------------------------------ strategy rules
\* Conditions on the RSI column that the rules below are built from.
RsiHigh ==
    [indicator |-> "RSI", parameter |-> "value", operator |-> ">",
     value |-> Num(1)]
RsiLow ==
    [indicator |-> "RSI", parameter |-> "value", operator |-> "<",
     value |-> Num(1)]
RsiCross ==
    [indicator |-> "RSI", parameter |-> Absent,
     operator |-> "crosses_above", value |-> Num(0)]

\* One entry of rule_configs. A stop, target or multiplier that is None is
\* 0: the code only tests these values for truth before it uses them.
RuleConfig(idx, dir, entry, exit, sl, tp, slm, mb) ==
    [index |-> idx, direction |-> dir, entry_conditions |-> entry,
     exit_conditions |-> exit, sl_pips |-> sl, tp_pips |-> tp,
     sl_atr_mult |-> slm, tp_atr_mult |-> 0, min_bars |-> mb]

MinBars == 0..2

\* The locals of run_backtest before the bar loop.
NoRule == 0
sim0 ==
    [in_position |-> FALSE, entry_price |-> 0, entry_index |-> 0,
     active_rc |-> NoRule, effective_sl_pips |-> 0,
     effective_tp_pips |-> 0, active_direction |-> "buy"]

\* No candle evaluation, no call of evaluate_condition and no backtest is
\* part of the behaviour.
NoTick ==
    /\ bars_in_trade = [i \in Inst |-> 0]
    /\ last_candle_time = [i \in Inst |-> 0]
    /\ signals = [i \in Inst |-> << >>]

NoEvaluation ==
    /\ condition = NoCondition
    /\ prev_row = NoRow
    /\ result = "-"

\* Money is counted in units of 0.0001 of the account currency: 1 % of the
\* balance and the profit of a pip are then whole numbers on the balances
\* these frames produce. The defaults of the signature of run_backtest.
DefaultBalance == 100000000
DefaultRisk == 1

\* A backtest that is run once, with the default arguments, and reads its
\* frame row by row: the locals of lines 176-178 before the bar loop.
SingleRun ==
    /\ df = << >>
    /\ initial_balance = DefaultBalance
    /\ risk_per_trade = DefaultRisk
    /\ balance = initial_balance
    /\ equity_curve = << initial_balance >>
    /\ returned = << >>

NoBacktest ==
    /\ row = NoRow
    /\ rule_configs = << >>
    /\ bar = 0
    /\ sim = sim0
    /\ trades = << >>
    /\ SingleRun

\* ------------------------------------------------------- the trade state
\* state["trade_state"]: the ticket, the stop and target prices sent with the
\* order and the candle during which the entry time was read. A price that
\* is None is NoPrice; no price of these frames is 0.
NoPrice == 0
NoTradeState ==
    [ticket |-> NoTicket, sl_price |-> NoPrice, tp_price |-> NoPrice,
     entry_time |-> 0]
TradeState(t, sl, tp, at) ==
    [ticket |-> t, sl_price |-> sl, tp_price |-> tp, entry_time |-> at]
\* Spec and RegistrySpec follow neither prices nor candles: the trade state
\* of a fill or an adoption there names its ticket.
Unpriced(t) == TradeState(t, NoPrice, NoPrice, 0)

\* ------------------------------------------------ _determine_exit_reason
\* Prices of deals and of the trade state passed to _determine_exit_reason
\* are counted in units of 0.000001 (1105000 is 1.1050).
abs(x) == IF x < 0 THEN -x ELSE x

\* abs(exit_price - p) <= tol with tol = max(abs(exit_price) * 1e-5, 1e-5),
\* both sides multiplied by 100000.
within_tol(exit_price, p) ==
    LET tol == IF abs(exit_price) > 1000000 THEN abs(exit_price)
               ELSE 1000000
    IN  abs(exit_price - p) * 100000 <= tol

\* What connector.get_trade_history_by_symbol gives: an exception or a list
\* of deals.
Raises == [ok |-> FALSE, list |-> << >>]
Deals(l) == [ok |-> TRUE, list |-> l]
Deal(e, t, p) == [entry |-> e, position_id |-> t, price |-> p]

\* The deals of the list that close the position of the ticket.
out_deals(d, ticket) ==
    {k \in 1..Len(d.list) :
        d.list[k].entry = "out" /\ d.list[k].position_id = ticket}

\* _determine_exit_reason(ticket, symbol, trade_state) on the history d: the
\* first closing deal of the ticket decides.
determine_exit_reason(d, ticket, ts) ==
    IF ~d.ok \/ out_deals(d, ticket) = {} THEN "external"
    ELSE LET k == CHOOSE m \in out_deals(d, ticket) :
                      \A n \in out_deals(d, ticket) : m <= n
             exit_price == d.list[k].price
         IN  IF ts = NoTradeState THEN "external"
             ELSE IF ts.sl_price # NoPrice
                       /\ within_tol(exit_price, ts.sl_price)
                  THEN "stop_loss"
             ELSE IF ts.tp_price # NoPrice
                       /\ within_tol(exit_price, ts.tp_price)
                  THEN "take_profit"
             ELSE "external"

\* No call of _determine_exit_reason is part of the behaviour.
NoClassification ==
    /\ deals = Raises
    /\ determined = "-"

\* ------------------------------------------------------ the entry scorers
\* The model file behind load_model: absent, unreadable by joblib, trained
\* on another number of features, failing in predict_proba, or scoring.
MlModels == {"absent", "unloadable", "mismatch", "raises", "scores"}
LstmModels == {"absent", "unloadable", "raises", "predicts"}

\* Scores and probabilities in percent.
DEFAULT_THRESHOLD == 55

Bypass ==
    [score |-> 100, pass |-> TRUE, threshold |-> DEFAULT_THRESHOLD,
     model_loaded |-> FALSE]

\* (variant: a model that cannot score blocks the entry)
predict_confidence_FailClosed(model, proba) ==
    IF model = "scores"
    THEN [score |-> proba, pass |-> proba >= DEFAULT_THRESHOLD,
          threshold |-> DEFAULT_THRESHOLD, model_loaded |-> TRUE]
    ELSE [score |-> 0, pass |-> FALSE, threshold |-> DEFAULT_THRESHOLD,
          model_loaded |-> FALSE]

\* predict_confidence(indicators, direction, close_price) with the model
\* file as it is and proba = predict_proba(...)[0][1] when it scores.
predict_confidence(model, proba) ==
    IF model \in {"absent", "unloadable"} THEN Bypass
    ELSE IF model = "mismatch" THEN Bypass
    ELSE IF model = "raises" THEN Bypass
    ELSE [score |-> proba, pass |-> proba >= DEFAULT_THRESHOLD,
          threshold |-> DEFAULT_THRESHOLD, model_loaded |-> TRUE]

\* lstm_result before the predictor is asked.
Neutral == [direction |-> "neutral", confidence |-> 0, model_loaded |-> FALSE]

\* predict_direction(df): enough = the frame has the columns and rows the
\* model needs, prob = model.predict(X)[0][0] when it predicts.
predict_direction(model, enough, prob) ==
    IF model \in {"absent", "unloadable"} THEN Neutral
    ELSE IF ~enough
         THEN [direction |-> "neutral", confidence |-> 0,
               model_loaded |-> TRUE]
    ELSE IF model = "raises" THEN Neutral
    ELSE IF prob >= 55
         THEN [direction |-> "up", confidence |-> prob,
               model_loaded |-> TRUE]
    ELSE IF prob <= 45
         THEN [direction |-> "down", confidence |-> 100 - prob,
               model_loaded |-> TRUE]
    ELSE [direction |-> "neutral", confidence |-> 50, model_loaded |-> TRUE]

\* state["ml_confidence"] is None.
NoConfidence ==
    [score |-> 0, pass |-> FALSE, threshold |-> 0, model_loaded |-> FALSE]

\* No entry gate has been reached.
Unscored ==
    /\ ml_confidence = [i \in Inst |-> NoConfidence]
    /\ lstm_result = [i \in Inst |-> Neutral]

\* No model file is present.
NoScoring ==
    /\ ml_model = "absent"
    /\ lstm_model = "absent"
    /\ Unscored

\* ---------------------------------------------------- _calculate_lot_size
\* The arguments of _calculate_lot_size as whole numbers: equity in units of
\* the account currency, risk_percent in percent, sl_distance and tick_size
\* in points, tick_value in currency units per tick and lot, the volumes in
\* hundredths of a lot.
LotArgs(eq, risk, sl, tv, ts, vmin, vmax, step) ==
    [equity |-> eq, risk_percent |-> risk, sl_distance |-> sl,
     tick_value |-> tv, tick_size |-> ts, volume_min |-> vmin,
     volume_max |-> vmax, volume_step |-> step]

\* round(n / d) of Python for d > 0: to the nearest whole number, a tie to
\* the even one.
round_div(n, d) ==
    LET q == n \div d
        rest == n % d
    IN  IF 2 * rest > d \/ (2 * rest = d /\ q % 2 = 1) THEN q + 1 ELSE q

max(a, b) == IF a >= b THEN a ELSE b
min(a, b) == IF a <= b THEN a ELSE b

\* (variant: the rounded size is returned as it is)
calculate_lot_size_Unclamped(a) ==
    IF a.sl_distance <= 0 \/ a.tick_size <= 0 \/ a.tick_value <= 0
    THEN a.volume_min
    ELSE round_div(a.equity * a.risk_percent * a.tick_size,
                   a.sl_distance * a.tick_value * a.volume_step)
            * a.volume_step

\* _calculate_lot_size: lots / volume_step is
\* (equity * risk_percent / 100) / (sl_distance / tick_size * tick_value)
\* / volume_step, which in hundredths of a lot is the quotient below;
\* value_per_lot is positive past the first test.
calculate_lot_size(a) ==
    IF a.sl_distance <= 0 \/ a.tick_size <= 0 \/ a.tick_value <= 0
    THEN a.volume_min
    ELSE max(a.volume_min,
             min(a.volume_max,
                 round_div(a.equity * a.risk_percent * a.tick_size,
                           a.sl_distance * a.tick_value * a.volume_step)
                     * a.volume_step))

\* No call of _calculate_lot_size is part of the behaviour.
NoSizing ==
    /\ sizing = LotArgs(0, 0, 0, 0, 0, 0, 0, 0)
    /\ actual_volume = << >>

GateSites == {"select", "reconcile", "price", "history", "place", "close",
              "poll", "final_close"}
TickPcs == {"price", "history", "place", "close", "poll", "deals"}
ThreadPcs == GateSites \cup {"top", "deals", "dereg"}

OpenOn(s) == {t \in Tickets : posSym[t] = s}

\* The service after import: no instance, no connection.
Idle ==
    /\ pc = [i \in Inst |-> "none"]
    /\ sym = [i \in Inst |-> NoSym]
    /\ strategy = [i \in Inst |-> NoStrategy]
    /\ stop_event = [i \in Inst |-> FALSE]
    /\ running = [i \in Inst |-> FALSE]
    /\ in_position = [i \in Inst |-> FALSE]
    /\ position_ticket = [i \in Inst |-> NoTicket]
    /\ trade_id = [i \in Inst |-> FALSE]
    /\ trade_state = [i \in Inst |-> NoTradeState]
    /\ algo_instances = [s \in Symbols |-> NoInst]
    /\ connected = FALSE
    /\ lock = Free
    /\ reqPc = "idle"
    /\ statusPc = "idle"

Init ==
    /\ Idle
    \* the provider may hold a position left by a previous process
    /\ \/ /\ posSym = [t \in Tickets |-> NoSym]
          /\ nextTicket = 1
       \/ \E s \in Symbols :
          /\ posSym = [t \in Tickets |-> IF t = 1 THEN s ELSE NoSym]
          /\ nextTicket = 2
    /\ NoTick
    /\ NoSizing
    /\ NoEvaluation
    /\ NoBacktest
    /\ NoClassification
    /\ NoScoring

\* ------------------------------------------------------ connection state
mt5_connect ==
    /\ ~connected
    /\ connected' = TRUE
    /\ UNCHANGED << pc, sym, strategy, stop_event, running, loopVars,
                    algo_instances, lock, reqPc, provVars,
                    statusPc, offline >>

mt5_disconnect ==
    /\ connected
    /\ connected' = FALSE
    /\ UNCHANGED << pc, sym, strategy, stop_event, running, loopVars,
                    algo_instances, lock, reqPc, provVars,
                    statusPc, offline >>

\* ------------------------------------------------------------ algo_start
\* (variant: the handler registers without looking at the registry)
StartCheck_NoRegistryCheck(i, s, st) ==
    /\ pc[i] = "none"
    /\ connected
    /\ sym' = [sym EXCEPT ![i] = s]
    /\ strategy' = [strategy EXCEPT ![i] = st]
    /\ pc' = [pc EXCEPT ![i] = "checked"]
    /\ UNCHANGED << stop_event, running, loopVars, algo_instances,
                    connected, lock, reqPc, provVars,
                    statusPc, offline >>

\* algo_start up to the end of its first locked section: the connector
\* check, st = get_strategy(req.strategy_id), and
\* "if effective_symbol in algo_instances: raise HTTPException".
StartCheck(i, s, st) ==
    /\ pc[i] = "none"
    /\ connected
    /\ sym' = [sym EXCEPT ![i] = s]
    /\ strategy' = [strategy EXCEPT ![i] = st]
    /\ pc' = [pc EXCEPT ![i] =
                IF algo_instances[s] # NoInst THEN "rejected" ELSE "checked"]
    /\ UNCHANGED << stop_event, running, loopVars, algo_instances,
                    connected, lock, reqPc, provVars,
                    statusPc, offline >>

\* The HTTPException leaves the handler.
StartRejected(i) ==
    /\ pc[i] = "rejected"
    /\ pc' = [pc EXCEPT ![i] = "none"]
    /\ sym' = [sym EXCEPT ![i] = NoSym]
    /\ strategy' = [strategy EXCEPT ![i] = NoStrategy]
    /\ UNCHANGED << stop_event, running, loopVars, algo_instances,
                    connected, lock, reqPc, provVars,
                    statusPc, offline >>

\* AlgoInstance(...), the second locked section
\* "algo_instances[effective_symbol] = instance", and thread.start().
StartRegister(i) ==
    /\ pc[i] = "checked"
    /\ algo_instances' = [algo_instances EXCEPT ![sym[i]] = i]
    /\ running' = [running EXCEPT ![i] = TRUE]
    /\ pc' = [pc EXCEPT ![i] = "select"]
    /\ UNCHANGED << sym, strategy, stop_event, loopVars, connected, lock,
                    reqPc, provVars,
                    statusPc, offline >>

\* ------------------------------------------------------------- algo_stop
\* (variant: the caller of stop removes the entry itself)
AlgoStop_PopsEntry(s) ==
    /\ algo_instances[s] # NoInst
    /\ ~stop_event[algo_instances[s]]
    /\ stop_event' = [stop_event EXCEPT ![algo_instances[s]] = TRUE]
    /\ running' = [running EXCEPT ![algo_instances[s]] = FALSE]
    /\ algo_instances' = [algo_instances EXCEPT ![s] = NoInst]
    /\ UNCHANGED << pc, sym, strategy, loopVars, connected, lock, reqPc,
                    provVars,
                    statusPc, offline >>

\* algo_stop(symbol): one locked section, signals the registered instance.
AlgoStop(s) ==
    /\ algo_instances[s] # NoInst
    /\ ~stop_event[algo_instances[s]]
    /\ stop_event' = [stop_event EXCEPT ![algo_instances[s]] = TRUE]
    /\ running' = [running EXCEPT ![algo_instances[s]] = FALSE]
    /\ UNCHANGED << pc, sym, strategy, loopVars, algo_instances,
                    connected, lock, reqPc, provVars,
                    statusPc, offline >>

Registered == {algo_instances[s] : s \in Symbols} \ {NoInst}

\* algo_stop(): "stop all" signals every registered instance.
AlgoStopAll ==
    /\ \E i \in Registered : ~stop_event[i]
    /\ stop_event' = [i \in Inst |-> stop_event[i] \/ i \in Registered]
    /\ running' = [i \in Inst |-> running[i] /\ i \notin Registered]
    /\ UNCHANGED << pc, sym, strategy, loopVars, algo_instances,
                    connected, lock, reqPc, provVars,
                    statusPc, offline >>

\* ------------------------------------------------------- the MT5 gate
\* _safe_mt5_call: "with _mt5_global_lock" is entered by a loop thread that
\* is at a call made through _mt5(connector.fn, ...).
LoopAcquire(i) ==
    /\ pc[i] \in GateSites
    /\ connected
    /\ lock = Free
    /\ lock' = i
    /\ UNCHANGED << pc, sym, strategy, stop_event, running, loopVars,
                    algo_instances, connected, reqPc, provVars,
                    statusPc, offline >>

\* The call at pc[i] ends with result ok: either fn returned or raised
\* inside the gate, which is released, or connector is None and evaluating
\* connector.fn raised before the gate was reached.
CallEnds(i, ok) ==
    \/ /\ lock = i
       /\ lock' = Free
    \/ /\ lock # i
       /\ ~connected
       /\ ~ok
       /\ lock' = lock

Goto(i, l) == pc' = [pc EXCEPT ![i] = l]

\* Where the finally block starts: "if state.get('in_position') and
\* state.get('position_ticket')" selects the forced close.
Shutdown(i) ==
    IF in_position[i] /\ position_ticket[i] # NoTicket
    THEN "final_close" ELSE "dereg"

\* ------------------------------------------------------ _algo_loop start
\* _mt5(connector.select_symbol, symbol): outside every inner try, so an
\* exception reaches "except Exception" of the thread and then finally.
\* (get_symbol_info, which follows, only sets sizing constants.)
SelectReturn(i, ok) ==
    /\ pc[i] = "select"
    /\ CallEnds(i, ok)
    /\ Goto(i, IF ok THEN "reconcile" ELSE Shutdown(i))
    /\ UNCHANGED << sym, strategy, stop_event, running, loopVars,
                    algo_instances, connected, reqPc, provVars,
                    statusPc, offline >>

\* Startup reconciliation: existing_positions = _mt5(connector.get_positions);
\* the first position on the symbol is adopted, resumed tells whether the
\* store holds an open record for that ticket; "except Exception: pass".
ReconcileReturn(i, ok, t, resumed) ==
    /\ pc[i] = "reconcile"
    /\ CallEnds(i, ok)
    /\ IF ok /\ OpenOn(sym[i]) # {}
       THEN /\ t \in OpenOn(sym[i])
            /\ in_position' = [in_position EXCEPT ![i] = TRUE]
            /\ position_ticket' = [position_ticket EXCEPT ![i] = t]
            /\ trade_state' = [trade_state EXCEPT ![i] = Unpriced(t)]
            /\ trade_id' = [trade_id EXCEPT ![i] = resumed]
       ELSE /\ t = NoTicket
            /\ UNCHANGED loopVars
    /\ Goto(i, "top")
    /\ UNCHANGED << sym, strategy, stop_event, running, algo_instances,
                    connected, reqPc, provVars,
                    statusPc, offline >>

\* ------------------------------------------------------- the main loop
\* (variant: the loop does not look at the connector)
LoopTop_IgnoresConnection(i) ==
    /\ pc[i] = "top"
    /\ Goto(i, IF stop_event[i] THEN Shutdown(i) ELSE "price")
    /\ UNCHANGED << sym, strategy, stop_event, running, loopVars,
                    algo_instances, connected, lock, reqPc, provVars,
                    statusPc, offline >>

\* "while not stop_ev.is_set()" (reached after stop_ev.wait), then the
\* connection check "if connector is None or not connector.is_connected:
\* return"; both exits run the finally block.
LoopTop(i) ==
    /\ pc[i] = "top"
    /\ Goto(i, IF stop_event[i] \/ ~connected THEN Shutdown(i) ELSE "price")
    /\ UNCHANGED << sym, strategy, stop_event, running, loopVars,
                    algo_instances, connected, lock, reqPc, provVars,
                    statusPc, offline >>

\* (variant: a failed price fetch is not caught inside the tick)
PriceReturn_Fatal(i, ok) ==
    /\ pc[i] = "price"
    /\ CallEnds(i, ok)
    /\ Goto(i, IF ok THEN "history" ELSE Shutdown(i))
    /\ UNCHANGED << sym, strategy, stop_event, running, loopVars,
                    algo_instances, connected, reqPc, provVars,
                    statusPc, offline >>

\* price_info = _mt5(connector.get_symbol_price, symbol); on failure
\* "Price fetch failed", stop_ev.wait(5), continue.
PriceReturn(i, ok) ==
    /\ pc[i] = "price"
    /\ CallEnds(i, ok)
    /\ Goto(i, IF ok THEN "history" ELSE "top")
    /\ UNCHANGED << sym, strategy, stop_event, running, loopVars,
                    algo_instances, connected, reqPc, provVars,
                    statusPc, offline >>

\* df = _mt5(connector.get_history, ...), indicators, condition evaluation.
\* sig is the outcome of the evaluation on the fetched candles: while flat,
\* len(df) >= 2 and all entry conditions and the ML gate pass; in a position,
\* len(df) >= 2 and bars_in_trade >= min_bars and all exit conditions pass.
\* A failure is caught by the inner "except Exception".
HistoryReturn(i, ok, sig) ==
    /\ pc[i] = "history"
    /\ CallEnds(i, ok)
    /\ Goto(i, IF ~ok THEN "top"
               ELSE IF ~in_position[i]
                    THEN IF sig /\ strategy[i].entry THEN "place" ELSE "top"
                    ELSE IF sig /\ strategy[i].exit
                              /\ position_ticket[i] # NoTicket
                         THEN "close" ELSE "poll")
    /\ UNCHANGED << sym, strategy, stop_event, running, loopVars,
                    algo_instances, connected, reqPc, provVars,
                    statusPc, offline >>

\* (variant: a set stop event abandons the submission and its result)
PlaceReturn_Preempted(i, ok, saved) ==
    /\ pc[i] = "place"
    /\ CallEnds(i, ok)
    /\ IF ok /\ ~stop_event[i]
       THEN /\ nextTicket <= MaxTickets
            /\ posSym' = [posSym EXCEPT ![nextTicket] = sym[i]]
            /\ nextTicket' = nextTicket + 1
            /\ in_position' = [in_position EXCEPT ![i] = TRUE]
            /\ position_ticket' = [position_ticket EXCEPT ![i] = nextTicket]
            /\ trade_state' =
                  [trade_state EXCEPT ![i] = Unpriced(nextTicket)]
            /\ trade_id' = [trade_id EXCEPT ![i] = saved]
       ELSE UNCHANGED << provVars, loopVars >>
    /\ Goto(i, IF stop_event[i] THEN "dereg" ELSE "top")
    /\ UNCHANGED << sym, strategy, stop_event, running, algo_instances,
                    connected, reqPc,
                    statusPc, offline >>

\* result = _mt5(connector.place_trade, ...). ok: the order was filled
\* (result["success"]); saved: save_algo_trade stored the open record.
\* Otherwise "Trade failed" / "Trade error" and the state is left alone.
PlaceReturn(i, ok, saved) ==
    /\ pc[i] = "place"
    /\ CallEnds(i, ok)
    /\ IF ok
       THEN /\ nextTicket <= MaxTickets
            /\ posSym' = [posSym EXCEPT ![nextTicket] = sym[i]]
            /\ nextTicket' = nextTicket + 1
            /\ in_position' = [in_position EXCEPT ![i] = TRUE]
            /\ position_ticket' = [position_ticket EXCEPT ![i] = nextTicket]
            /\ trade_state' =
                  [trade_state EXCEPT ![i] = Unpriced(nextTicket)]
            /\ trade_id' = [trade_id EXCEPT ![i] = saved]
       ELSE UNCHANGED << provVars, loopVars >>
    /\ Goto(i, "top")
    /\ UNCHANGED << sym, strategy, stop_event, running, algo_instances,
                    connected, reqPc,
                    statusPc, offline >>

\* (variant: a confirmed close clears the position and leaves the record)
CloseReturn_SkipsRecord(i, ok) ==
    /\ pc[i] = "close"
    /\ CallEnds(i, ok)
    /\ ok => posSym[position_ticket[i]] # NoSym
    /\ IF ok
       THEN /\ posSym' = [posSym EXCEPT ![position_ticket[i]] = NoSym]
            /\ Goto(i, "top")
            /\ in_position' = [in_position EXCEPT ![i] = FALSE]
            /\ position_ticket' = [position_ticket EXCEPT ![i] = NoTicket]
            /\ trade_state' = [trade_state EXCEPT ![i] = NoTradeState]
            /\ UNCHANGED trade_id
       ELSE /\ Goto(i, "poll")
            /\ UNCHANGED << posSym, loopVars >>
    /\ UNCHANGED << sym, strategy, stop_event, running, algo_instances,
                    connected, reqPc, nextTicket,
                    statusPc, offline >>

\* close_result = _mt5(connector.close_position, ticket) on an exit signal.
\* MT5Connector.close_position raises when the ticket is not open. On
\* success _record_algo_trade_exit reads the deal history if a record is
\* open, then the position state is cleared; otherwise "Close failed" /
\* "Close error" and the external-close poll follows.
CloseReturn(i, ok) ==
    /\ pc[i] = "close"
    /\ CallEnds(i, ok)
    /\ ok => posSym[position_ticket[i]] # NoSym
    /\ IF ok
       THEN /\ posSym' = [posSym EXCEPT ![position_ticket[i]] = NoSym]
            /\ IF trade_id[i]
               THEN /\ Goto(i, "deals")
                    /\ UNCHANGED loopVars
               ELSE /\ Goto(i, "top")
                    /\ in_position' = [in_position EXCEPT ![i] = FALSE]
                    /\ position_ticket' =
                          [position_ticket EXCEPT ![i] = NoTicket]
                    /\ trade_state' =
                          [trade_state EXCEPT ![i] = NoTradeState]
                    /\ UNCHANGED trade_id
       ELSE /\ Goto(i, "poll")
            /\ UNCHANGED << posSym, loopVars >>
    /\ UNCHANGED << sym, strategy, stop_event, running, algo_instances,
                    connected, reqPc, nextTicket,
                    statusPc, offline >>

\* positions = _mt5(connector.get_positions); still_open = any(...). When
\* the ticket is gone _determine_exit_reason reads the deal history.
PollReturn(i, ok) ==
    /\ pc[i] = "poll"
    /\ CallEnds(i, ok)
    /\ Goto(i, IF ok /\ posSym[position_ticket[i]] = NoSym
               THEN "deals" ELSE "top")
    /\ UNCHANGED << sym, strategy, stop_event, running, loopVars,
                    algo_instances, connected, reqPc, provVars,
                    statusPc, offline >>

\* (variant: the trade state outlives the position)
DealsReturn_KeepsTradeState(i, recorded) ==
    /\ pc[i] = "deals"
    /\ in_position' = [in_position EXCEPT ![i] = FALSE]
    /\ position_ticket' = [position_ticket EXCEPT ![i] = NoTicket]
    /\ trade_state' = trade_state
    /\ trade_id' = [trade_id EXCEPT ![i] = trade_id[i] /\ ~recorded]
    /\ Goto(i, "top")
    /\ UNCHANGED << sym, strategy, stop_event, running, algo_instances,
                    connected, lock, reqPc, provVars,
                    statusPc, offline >>

\* (variant: the exit is not written to the open trade record)
DealsReturn_KeepsRecord(i, recorded) ==
    /\ pc[i] = "deals"
    /\ in_position' = [in_position EXCEPT ![i] = FALSE]
    /\ position_ticket' = [position_ticket EXCEPT ![i] = NoTicket]
    /\ trade_state' = [trade_state EXCEPT ![i] = NoTradeState]
    /\ trade_id' = trade_id
    /\ Goto(i, "top")
    /\ UNCHANGED << sym, strategy, stop_event, running, algo_instances,
                    connected, lock, reqPc, provVars,
                    statusPc, offline >>

\* _determine_exit_reason / _get_mt5_exit_pnl call
\* connector.get_trade_history_by_symbol directly, not through _mt5; then
\* _record_algo_trade_exit closes the record (recorded: close_algo_trade did
\* not raise) and the position state is cleared.
DealsReturn(i, recorded) ==
    /\ pc[i] = "deals"
    /\ in_position' = [in_position EXCEPT ![i] = FALSE]
    /\ position_ticket' = [position_ticket EXCEPT ![i] = NoTicket]
    /\ trade_state' = [trade_state EXCEPT ![i] = NoTradeState]
    /\ trade_id' = [trade_id EXCEPT ![i] = trade_id[i] /\ ~recorded]
    /\ Goto(i, "top")
    /\ UNCHANGED << sym, strategy, stop_event, running, algo_instances,
                    connected, lock, reqPc, provVars,
                    statusPc, offline >>

\* ------------------------------------------------------------- shutdown
\* _mt5(connector.close_position, ticket) in finally: the result is not
\* read, an exception is logged as "Failed to close position".
FinalCloseReturn(i, ok) ==
    /\ pc[i] = "final_close"
    /\ CallEnds(i, ok)
    /\ ok => posSym[position_ticket[i]] # NoSym
    /\ posSym' = IF ok THEN [posSym EXCEPT ![position_ticket[i]] = NoSym]
                 ELSE posSym
    /\ Goto(i, "dereg")
    /\ UNCHANGED << sym, strategy, stop_event, running, loopVars,
                    algo_instances, connected, reqPc, nextTicket,
                    statusPc, offline >>

\* The rest of finally: the open record is marked, the position state is
\* reset, and "algo_instances.pop(symbol, None)" under _instances_lock; the
\* thread ends and the instance is garbage.
LoopDeregister(i) ==
    /\ pc[i] = "dereg"
    /\ trade_id' = [trade_id EXCEPT ![i] = FALSE]
    /\ in_position' = [in_position EXCEPT ![i] = FALSE]
    /\ position_ticket' = [position_ticket EXCEPT ![i] = NoTicket]
    /\ trade_state' = [trade_state EXCEPT ![i] = NoTradeState]
    /\ running' = [running EXCEPT ![i] = FALSE]
    /\ algo_instances' = [algo_instances EXCEPT ![sym[i]] = NoInst]
    /\ Goto(i, "none")
    /\ sym' = [sym EXCEPT ![i] = NoSym]
    /\ strategy' = [strategy EXCEPT ![i] = NoStrategy]
    /\ stop_event' = [stop_event EXCEPT ![i] = FALSE]
    /\ UNCHANGED << connected, lock, reqPc, provVars,
                    statusPc, offline >>

\* The exit_reason that close_algo_trade is given by the step of loop i at
\* its position: "strategy_exit" or the result of _determine_exit_reason
\* from _record_algo_trade_exit, "algo_stopped" from the finally block.
close_algo_trade_reasons(i) ==
    IF pc[i] = "deals"
    THEN {"strategy_exit", "stop_loss", "take_profit", "external"}
    ELSE IF pc[i] = "dereg" THEN {"algo_stopped"}
    ELSE {}

\* ------------------------------------------------- other channel callers
\* A stream subscriber (SSE / WebSocket generator) runs _safe_mt5_call on
\* the mt5ws executor.
StreamAcquire ==
    /\ connected
    /\ lock = Free
    /\ lock' = SSE
    /\ UNCHANGED << pc, sym, strategy, stop_event, running, loopVars,
                    algo_instances, connected, reqPc,
                    provVars,
                    statusPc, offline >>

StreamReturn ==
    /\ lock = SSE
    /\ lock' = Free
    /\ UNCHANGED << pc, sym, strategy, stop_event, running, loopVars,
                    algo_instances, connected, reqPc,
                    provVars,
                    statusPc, offline >>

\* mt5_account / mt5_positions / mt5_place_trade / mt5_close_position: the
\* handler checks the connector and calls it directly.
RequestCall ==
    /\ reqPc = "idle"
    /\ connected
    /\ reqPc' = "call"
    /\ UNCHANGED << pc, sym, strategy, stop_event, running, loopVars,
                    algo_instances, connected, lock,
                    provVars,
                    statusPc, offline >>

\* The handler returns; t # NoTicket: it was mt5_close_position(t) and the
\* provider closed the position.
RequestReturn(t) ==
    /\ reqPc = "call"
    /\ reqPc' = "idle"
    /\ t # NoTicket => posSym[t] # NoSym
    /\ posSym' = IF t # NoTicket THEN [posSym EXCEPT ![t] = NoSym] ELSE posSym
    /\ UNCHANGED << pc, sym, strategy, stop_event, running, loopVars,
                    algo_instances, connected, lock,
                    nextTicket,
                    statusPc, offline >>

\* The provider closes a position on its own (stop or target hit).
ProviderClose(t) ==
    /\ posSym[t] # NoSym
    /\ posSym' = [posSym EXCEPT ![t] = NoSym]
    /\ UNCHANGED << pc, sym, strategy, stop_event, running, loopVars,
                    algo_instances, connected, lock, reqPc,
                    nextTicket,
                    statusPc, offline >>

\* ------------------------------------------------------ status reporting
\* _instance_to_dict(inst): the fields of inst.state that the model holds.
instance_to_dict(i) ==
    [running |-> running[i], symbol |-> sym[i],
     in_position |-> in_position[i], position_ticket |-> position_ticket[i],
     trade_state |-> trade_state[i]]

\* algo_status(symbol): "instance = algo_instances.get(symbol)", the default
\* record when there is none, _instance_to_dict(instance) otherwise. Returns
\* what the handler serialises at the moment of the call.
algo_status(s) ==
    IF algo_instances[s] = NoInst
    THEN [running |-> FALSE, symbol |-> s, in_position |-> FALSE,
          position_ticket |-> NoTicket, trade_state |-> NoTradeState]
    ELSE instance_to_dict(algo_instances[s])

\* The "algo" event of _sse_live_generator for its symbol:
\* "if instance and instance.state['running']".
sse_algo_event(s) ==
    IF algo_instances[s] # NoInst /\ running[algo_instances[s]]
    THEN instance_to_dict(algo_instances[s])
    ELSE [running |-> FALSE, symbol |-> s]

\* algo_status() without a symbol: "for sym, inst in algo_instances.items()"
\* starts; the handler takes no lock, and other threads run between two
\* iterations of the loop.
StatusIterate ==
    /\ statusPc = "idle"
    /\ statusPc' = "iter"
    /\ UNCHANGED << pc, sym, strategy, stop_event, running, loopVars,
                    algo_instances, connected, lock, reqPc, provVars,
                    offline >>

\* The iteration is over and the handler returns (or the iterator raised).
StatusReturn ==
    /\ statusPc = "iter"
    /\ statusPc' = "idle"
    /\ UNCHANGED << pc, sym, strategy, stop_event, running, loopVars,
                    algo_instances, connected, lock, reqPc, provVars,
                    offline >>

\* Every step of the thread of slot i; DB is the set of outcomes of the
\* calls to the trade store (TRUE: the store answered).
LoopStep(i, DB) ==
    \/ LoopAcquire(i)
    \/ \E ok \in BOOLEAN : SelectReturn(i, ok)
    \/ \E ok \in BOOLEAN, resumed \in DB, t \in Tickets \cup {NoTicket} :
          ReconcileReturn(i, ok, t, resumed)
    \/ LoopTop(i)
    \/ \E ok \in BOOLEAN : PriceReturn(i, ok)
    \/ \E ok, sig \in BOOLEAN : HistoryReturn(i, ok, sig)
    \/ \E ok \in BOOLEAN, saved \in DB : PlaceReturn(i, ok, saved)
    \/ \E ok \in BOOLEAN : CloseReturn(i, ok)
    \/ \E ok \in BOOLEAN : PollReturn(i, ok)
    \/ \E recorded \in DB : DealsReturn(i, recorded)
    \/ \E ok \in BOOLEAN : FinalCloseReturn(i, ok)
    \/ LoopDeregister(i)

\* --------------------------------------------------- evaluate_condition
\* One call of evaluate_condition on the arguments of the initial state.
Evaluate ==
    /\ result = "-"
    /\ condition # NoCondition
    /\ result' = evaluate_condition(row, prev_row, condition)
    /\ UNCHANGED << pc, sym, strategy, stop_event, running, loopVars,
                    algo_instances, connected, lock, reqPc, provVars,
                    statusPc, tickVars, condition, row, prev_row, simVars,
                    runVars, exitVars, modelVars,
                    sizeVars, scoreVars >>

\* ---------------------------------------------------------- run_backtest
\* (variant: the pips of a short position, whatever the direction)
pnl_pips_AlwaysShort(r) == sim.entry_price - r.close

\* pnl_pips of the open position at the close of row r.
pnl_pips(r) ==
    IF sim.active_direction = "buy" THEN r.close - sim.entry_price
    ELSE sim.entry_price - r.close

\* (variant: the stop and target tests wait for min_bars like the exit test)
exit_reason_GatedStops(r, i) ==
    LET rc == rule_configs[sim.active_rc]
        bars_held == i - sim.entry_index
    IN  IF bars_held < rc.min_bars THEN "-"
        ELSE IF rc.exit_conditions # << >>
              /\ all_met(rc.exit_conditions, r, row)
        THEN "strategy_exit"
        ELSE IF sim.effective_tp_pips # 0
                  /\ pnl_pips(r) >= sim.effective_tp_pips
             THEN "take_profit"
        ELSE IF sim.effective_sl_pips # 0
                  /\ pnl_pips(r) <= -sim.effective_sl_pips
             THEN "stop_loss"
        ELSE "-"

\* (variant: the exit conditions are tested on every bar of the trade)
exit_reason_UngatedExit(r, i) ==
    LET rc == rule_configs[sim.active_rc]
    IN  IF rc.exit_conditions # << >>
              /\ all_met(rc.exit_conditions, r, row)
        THEN "strategy_exit"
        ELSE IF sim.effective_tp_pips # 0
                  /\ pnl_pips(r) >= sim.effective_tp_pips
             THEN "take_profit"
        ELSE IF sim.effective_sl_pips # 0
                  /\ pnl_pips(r) <= -sim.effective_sl_pips
             THEN "stop_loss"
        ELSE "-"

\* (variant: the stop test compares with the stop distance, not its negative)
exit_reason_StopSign(r, i) ==
    LET rc == rule_configs[sim.active_rc]
        bars_held == i - sim.entry_index
    IN  IF rc.exit_conditions # << >> /\ bars_held >= rc.min_bars
              /\ all_met(rc.exit_conditions, r, row)
        THEN "strategy_exit"
        ELSE IF sim.effective_tp_pips # 0
                  /\ pnl_pips(r) >= sim.effective_tp_pips
             THEN "take_profit"
        ELSE IF sim.effective_sl_pips # 0
                  /\ pnl_pips(r) <= sim.effective_sl_pips
             THEN "stop_loss"
        ELSE "-"

\* exit_reason after the three tests of the bar, each of which overwrites
\* the one before it; "-" is None.
exit_reason(r, i) ==
    LET rc == rule_configs[sim.active_rc]
        bars_held == i - sim.entry_index
    IN  IF rc.exit_conditions # << >> /\ bars_held >= rc.min_bars
              /\ all_met(rc.exit_conditions, r, row)
        THEN "strategy_exit"
        ELSE IF sim.effective_tp_pips # 0
                  /\ pnl_pips(r) >= sim.effective_tp_pips
             THEN "take_profit"
        ELSE IF sim.effective_sl_pips # 0
                  /\ pnl_pips(r) <= -sim.effective_sl_pips
             THEN "stop_loss"
        ELSE "-"

\* round(x, 2) of an amount of money: to the nearest multiple of 100 units,
\* a tie to the even one.
round2(x) ==
    LET q == x \div 100
        rest == x % 100
    IN  IF rest > 50 \/ (rest = 50 /\ q % 2 = 1) THEN (q + 1) * 100
        ELSE q * 100

\* The profit of closing the open position at the close of row r: the risked
\* share of the balance per stop distance, or per 100 pips without a stop.
profit(r) ==
    LET risk_amount == (balance * risk_per_trade) \div 100
        sl_for_calc == IF sim.effective_sl_pips > 0
                       THEN sim.effective_sl_pips ELSE 0
    IN  IF sl_for_calc # 0
        THEN (risk_amount * pnl_pips(r)) \div sl_for_calc
        ELSE (risk_amount * pnl_pips(r)) \div 100

\* (variant: a rule without entry conditions is tested like any other)
entry_met_Vacuous(r) ==
    {k \in 1..Len(rule_configs) :
        all_met(rule_configs[k].entry_conditions, r, row)}

\* The rules, by position in rule_configs, that pass the entry test on r.
entry_met(r) ==
    {k \in 1..Len(rule_configs) :
        /\ rule_configs[k].entry_conditions # << >>
        /\ all_met(rule_configs[k].entry_conditions, r, row)}

\* The locals after rule k opened a position on bar i.
opened(k, r, i) ==
    LET rc == rule_configs[k]
        atr_val == IF "ATR_14" \in DOMAIN r /\ r["ATR_14"] # NaN
                   THEN r["ATR_14"] ELSE 0
    IN  [in_position |-> TRUE, entry_price |-> r.close, entry_index |-> i,
         active_rc |-> k, active_direction |-> rc.direction,
         effective_sl_pips |->
             IF rc.sl_atr_mult # 0 /\ atr_val > 0
             THEN atr_val * rc.sl_atr_mult ELSE rc.sl_pips,
         effective_tp_pips |->
             IF rc.tp_atr_mult # 0 /\ atr_val > 0
             THEN atr_val * rc.tp_atr_mult ELSE rc.tp_pips]

\* (variant: the last matching rule is the one that opens the position)
first_match_LastWins(S) == CHOOSE k \in S : \A m \in S : m <= k

\* "for rc in rule_configs: ... break": the first rule that matches.
first_match(S) == CHOOSE k \in S : \A m \in S : k <= m

\* (variant: the bar that closes a trade also tests the entry conditions)
run_backtest_bar_ReentersOnClose(r) ==
    LET i == bar + 1
    IN  /\ bar < MaxBars
        /\ bar' = i
        /\ row' = r
        /\ IF ~sim.in_position
           THEN /\ sim' = IF entry_met(r) = {} THEN sim
                          ELSE opened(first_match(entry_met(r)), r, i)
                /\ UNCHANGED << trades, balance >>
           ELSE IF exit_reason(r, i) # "-"
                THEN /\ balance' = balance + profit(r)
                     /\ trades' = Append(trades,
                          [entry_price |-> sim.entry_price,
                           exit_price |-> r.close,
                           entry_time |-> sim.entry_index,
                           exit_time |-> i,
                           direction |-> sim.active_direction,
                           pnl_pips |-> pnl_pips(r),
                           profit |-> round2(profit(r)),
                           exit_reason |-> exit_reason(r, i),
                           rule_index |-> rule_configs[sim.active_rc].index])
                     /\ sim' = IF entry_met(r) = {}
                               THEN [sim EXCEPT !.in_position = FALSE,
                                                !.active_rc = NoRule]
                               ELSE opened(first_match(entry_met(r)), r, i)
                ELSE UNCHANGED << sim, trades, balance >>
        /\ equity_curve' = Append(equity_curve, balance')

\* (variant: the curve shows the open position at the price of the bar)
run_backtest_bar_MarkToMarket(r) ==
    LET i == bar + 1
    IN  /\ bar < MaxBars
        /\ bar' = i
        /\ row' = r
        /\ IF ~sim.in_position
           THEN /\ sim' = IF entry_met(r) = {} THEN sim
                          ELSE opened(first_match(entry_met(r)), r, i)
                /\ UNCHANGED << trades, balance >>
           ELSE IF exit_reason(r, i) # "-"
                THEN /\ balance' = balance + profit(r)
                     /\ trades' = Append(trades,
                          [entry_price |-> sim.entry_price,
                           exit_price |-> r.close,
                           entry_time |-> sim.entry_index,
                           exit_time |-> i,
                           direction |-> sim.active_direction,
                           pnl_pips |-> pnl_pips(r),
                           profit |-> round2(profit(r)),
                           exit_reason |-> exit_reason(r, i),
                           rule_index |-> rule_configs[sim.active_rc].index])
                     /\ sim' = [sim EXCEPT !.in_position = FALSE,
                                           !.active_rc = NoRule]
                ELSE UNCHANGED << sim, trades, balance >>
        /\ equity_curve' =
              Append(equity_curve,
                     balance' + IF sim'.in_position /\ sim.in_position
                                THEN profit(r) ELSE 0)

\* One iteration of "for i in range(1, len(df))": r is df.iloc[i], the
\* variable row still holds df.iloc[i - 1]. Prices are whole pips, which
\* round(pnl_pips, 2) leaves as they are.
run_backtest_bar(r) ==
    LET i == bar + 1
    IN  /\ bar < MaxBars
        /\ bar' = i
        /\ row' = r
        /\ IF ~sim.in_position
           THEN /\ sim' = IF entry_met(r) = {} THEN sim
                          ELSE opened(first_match(entry_met(r)), r, i)
                /\ UNCHANGED << trades, balance >>
           ELSE IF exit_reason(r, i) # "-"
                THEN /\ balance' = balance + profit(r)
                     /\ trades' = Append(trades,
                          [entry_price |-> sim.entry_price,
                           exit_price |-> r.close,
                           entry_time |-> sim.entry_index,
                           exit_time |-> i,
                           direction |-> sim.active_direction,
                           pnl_pips |-> pnl_pips(r),
                           profit |-> round2(profit(r)),
                           exit_reason |-> exit_reason(r, i),
                           rule_index |-> rule_configs[sim.active_rc].index])
                     /\ sim' = [sim EXCEPT !.in_position = FALSE,
                                           !.active_rc = NoRule]
                ELSE UNCHANGED << sim, trades, balance >>
        /\ equity_curve' = Append(equity_curve, balance')

\* max(profits) and min(profits) of a ledger that is not empty.
best_trade(t) ==
    CHOOSE p \in {t[k].profit : k \in 1..Len(t)} :
        \A k \in 1..Len(t) : t[k].profit <= p
worst_trade(t) ==
    CHOOSE p \in {t[k].profit : k \in 1..Len(t)} :
        \A k \in 1..Len(t) : p <= t[k].profit

\* _calculate_stats: the counts and amounts of the returned statistics. Its
\* other entries (win_rate, profit_factor, max_drawdown, sharpe_ratio,
\* avg_win, avg_loss) are quotients of the profits of the ledger and of the
\* values of the equity curve, and are not computed here.
calculate_stats(t, initial, final, curve) ==
    IF t = << >>
    THEN [total_trades |-> 0, total_profit |-> 0, best_trade |-> 0,
          worst_trade |-> 0, final_balance |-> initial]
    ELSE [total_trades |-> Len(t),
          winning_trades |->
              Cardinality({k \in 1..Len(t) : t[k].profit > 0}),
          losing_trades |->
              Cardinality({k \in 1..Len(t) : t[k].profit <= 0}),
          total_profit |-> round2(final - initial),
          best_trade |-> best_trade(t),
          worst_trade |-> worst_trade(t),
          final_balance |-> round2(final)]

\* The dict run_backtest returns after the bar loop.
run_backtest_result ==
    [trades |-> trades,
     stats |-> calculate_stats(trades, initial_balance, balance,
                               equity_curve),
     equity_curve |-> equity_curve]

\* (variant: the balance is kept from one call to the next)
run_backtest_locals_KeepsBalance ==
    /\ balance' = balance
    /\ equity_curve' = << balance >>
    /\ trades' = << >>
    /\ sim' = sim0

\* The locals of a call of run_backtest before its bar loop.
run_backtest_locals ==
    /\ balance' = initial_balance
    /\ equity_curve' = << initial_balance >>
    /\ trades' = << >>
    /\ sim' = sim0

\* run_backtest alone: nothing of the live service moves.
BacktestBar(r) ==
    /\ run_backtest_bar(r)
    /\ UNCHANGED << pc, sym, strategy, stop_event, running, loopVars,
                    algo_instances, connected, lock, reqPc, provVars,
                    statusPc, tickVars, evalVars, rule_configs, argVars,
                    returned, exitVars, modelVars,
                    sizeVars, scoreVars >>

\* One iteration of the bar loop of a backtest of the frame df; df[1] is
\* df.iloc[0].
BacktestFrameBar ==
    /\ Len(returned) < 2
    /\ bar < Len(df) - 1
    /\ BacktestBar(df[bar + 2])

\* The backtest returns and run_backtest is called again with the same
\* arguments.
BacktestReturn ==
    /\ Len(returned) < 2
    /\ bar = Len(df) - 1
    /\ returned' = Append(returned, run_backtest_result)
    /\ run_backtest_locals
    /\ bar' = 0
    /\ row' = df[1]
    /\ UNCHANGED << pc, sym, strategy, stop_event, running, loopVars,
                    algo_instances, connected, lock, reqPc, provVars,
                    statusPc, tickVars, evalVars, rule_configs, argVars,
                    exitVars, modelVars,
                    sizeVars, scoreVars >>

\* --------------------------------------------- a tick of the live loop
\* sl_price and tp_price of an order of the rule at entry_price; the candle
\* rows count prices in pips, so pip_value is 1.
stop_price(rule, atr_val, entry_price) ==
    LET dist == IF rule.sl_atr_mult # 0 /\ atr_val > 0
                THEN atr_val * rule.sl_atr_mult ELSE rule.sl_pips
    IN  IF dist = 0 THEN NoPrice
        ELSE IF rule.direction = "buy" THEN entry_price - dist
        ELSE entry_price + dist

target_price(rule, atr_val, entry_price) ==
    LET dist == IF rule.tp_atr_mult # 0 /\ atr_val > 0
                THEN atr_val * rule.tp_atr_mult ELSE rule.tp_pips
    IN  IF dist = 0 THEN NoPrice
        ELSE IF rule.direction = "buy" THEN entry_price + dist
        ELSE entry_price - dist

\* (variant: the order does not wait for the confidence score)
entry_allowed_IgnoresScore(all_entry, ml_result) == all_entry

\* "if all_entry and len(entry_conditions) > 0 and ml_pass": the test before
\* the LSTM prediction and before the order; all_entry includes the length
\* test.
entry_allowed(all_entry, ml_result) == all_entry /\ ml_result.pass

\* What the ML gate appends to state["signals"]: "ml_pass" is logged only
\* for a loaded model.
ml_signals(ml_result) ==
    IF ~ml_result.pass THEN << "ml_skip" >>
    ELSE IF ml_result.model_loaded THEN << "ml_pass" >>
    ELSE << >>

\* What the entry branch of a tick appends to state["signals"] after the
\* periodic "check" / "flip" line, which is left out: the line of the ML
\* gate, "lstm" for a loaded direction model, and the direction of the
\* filled order or "error" for one that failed.
entry_signals(all_entry, ml_result, lstm, direction, done) ==
    IF ~all_entry THEN << >>
    ELSE ml_signals(ml_result)
            \o (IF ~entry_allowed(all_entry, ml_result) THEN << >>
                ELSE (IF lstm.model_loaded THEN << "lstm" >> ELSE << >>)
                        \o << IF done THEN direction ELSE "error" >>)

\* (variant: a close that failed is taken for a close)
LiveExit_ForgetsPosition(i, r, prev, counted, done) ==
    LET rule == rule_configs[1]
    IN  IF counted >= rule.min_bars
             /\ rule.exit_conditions # << >>
             /\ all_met(rule.exit_conditions, r, prev)
             /\ position_ticket[i] # NoTicket
        THEN IF done
             THEN /\ in_position' = [in_position EXCEPT ![i] = FALSE]
                  /\ position_ticket' =
                        [position_ticket EXCEPT ![i] = NoTicket]
                  /\ trade_state' = [trade_state EXCEPT ![i] = NoTradeState]
                  /\ trade_id' = [trade_id EXCEPT ![i] = FALSE]
                  /\ bars_in_trade' = [bars_in_trade EXCEPT ![i] = 0]
                  /\ signals' = [signals EXCEPT ![i] = << "close" >>]
             ELSE /\ in_position' = [in_position EXCEPT ![i] = FALSE]
                  /\ position_ticket' =
                        [position_ticket EXCEPT ![i] = NoTicket]
                  /\ trade_state' = [trade_state EXCEPT ![i] = NoTradeState]
                  /\ bars_in_trade' = [bars_in_trade EXCEPT ![i] = 0]
                  /\ signals' = [signals EXCEPT ![i] = << "error" >>]
                  /\ UNCHANGED trade_id
        ELSE /\ bars_in_trade' = [bars_in_trade EXCEPT ![i] = counted]
             /\ signals' = [signals EXCEPT ![i] = << >>]
             /\ UNCHANGED loopVars

\* The rest of a tick of a loop in a position, with counted the value of
\* bars_in_trade after the candle tracking: the min_bars gate, the exit
\* test, and the close with its result done. After a close that failed the
\* poll finds the position open and nothing changes.
LiveExit(i, r, prev, counted, done) ==
    LET rule == rule_configs[1]
    IN  IF counted >= rule.min_bars
             /\ rule.exit_conditions # << >>
             /\ all_met(rule.exit_conditions, r, prev)
             /\ position_ticket[i] # NoTicket
        THEN IF done
             THEN /\ in_position' = [in_position EXCEPT ![i] = FALSE]
                  /\ position_ticket' =
                        [position_ticket EXCEPT ![i] = NoTicket]
                  /\ trade_state' = [trade_state EXCEPT ![i] = NoTradeState]
                  /\ trade_id' = [trade_id EXCEPT ![i] = FALSE]
                  /\ bars_in_trade' = [bars_in_trade EXCEPT ![i] = 0]
                  /\ signals' = [signals EXCEPT ![i] = << "close" >>]
             ELSE /\ bars_in_trade' = [bars_in_trade EXCEPT ![i] = counted]
                  /\ signals' = [signals EXCEPT ![i] = << "error" >>]
                  /\ UNCHANGED loopVars
        ELSE /\ bars_in_trade' = [bars_in_trade EXCEPT ![i] = counted]
             /\ signals' = [signals EXCEPT ![i] = << >>]
             /\ UNCHANGED loopVars

\* One tick of _algo_loop from "row = df.iloc[-1]" to the end of the tick,
\* with a trade store that answers and a position that is still open at the
\* poll: candle tracking, the entry test with the ML gate and the LSTM
\* prediction, the order, the min_bars gate, the exit test and the close for
\* rule = rules[0]. r is the last candle of the frame as this tick sees it
\* and fresh tells that it is not the candle of the previous tick; the
\* candle before it is as the last tick before it closed saw it. proba,
\* enough and prob are what the scoring models answer when they are asked;
\* done is the success of the order or of the close the tick requests (an
\* order is filled at the close of the candle).
LiveTick(i, r, fresh, proba, enough, prob, done) ==
    LET rule == rule_configs[1]
        current_candle_time == IF fresh THEN last_candle_time[i] + 1
                               ELSE last_candle_time[i]
        prev == IF fresh THEN row ELSE prev_row
        counted == IF fresh /\ in_position[i] THEN bars_in_trade[i] + 1
                   ELSE bars_in_trade[i]
        all_entry == /\ all_met(rule.entry_conditions, r, prev)
                     /\ Len(rule.entry_conditions) > 0
        ml_result == predict_confidence(ml_model, proba)
        lstm == predict_direction(lstm_model, enough, prob)
        atr_val == IF "ATR_14" \in DOMAIN r /\ r["ATR_14"] # NaN
                   THEN r["ATR_14"] ELSE 0
    IN  /\ fresh \/ last_candle_time[i] # 0
        /\ last_candle_time' =
              [last_candle_time EXCEPT ![i] = current_candle_time]
        /\ prev_row' = prev
        /\ IF ~in_position[i]
           THEN /\ ml_confidence' =
                      IF all_entry
                      THEN [ml_confidence EXCEPT ![i] = ml_result]
                      ELSE ml_confidence
                /\ lstm_result' =
                      [lstm_result EXCEPT ![i] =
                          IF entry_allowed(all_entry, ml_result) THEN lstm
                          ELSE Neutral]
                /\ signals' =
                      [signals EXCEPT ![i] =
                          entry_signals(all_entry, ml_result, lstm,
                                        rule.direction, done)]
                /\ IF entry_allowed(all_entry, ml_result) /\ done
                   THEN /\ in_position' = [in_position EXCEPT ![i] = TRUE]
                        /\ position_ticket' =
                              [position_ticket EXCEPT ![i] = 1]
                        /\ trade_state' =
                              [trade_state EXCEPT ![i] =
                                  TradeState(1,
                                      stop_price(rule, atr_val, r.close),
                                      target_price(rule, atr_val, r.close),
                                      current_candle_time)]
                        /\ trade_id' = [trade_id EXCEPT ![i] = TRUE]
                        /\ bars_in_trade' =
                              [bars_in_trade EXCEPT ![i] = 1]
                   ELSE /\ bars_in_trade' =
                              [bars_in_trade EXCEPT ![i] = counted]
                        /\ UNCHANGED loopVars
           ELSE /\ UNCHANGED scoreVars
                /\ LiveExit(i, r, prev, counted, done)

\* The same new candle reaches the simulator and the live loop.
CandleStep(r) ==
    /\ run_backtest_bar(r)
    /\ LiveTick("i1", r, TRUE, 0, FALSE, 0, TRUE)
    /\ UNCHANGED << pc, sym, strategy, stop_event, running,
                    algo_instances, connected, lock, reqPc, provVars,
                    statusPc, condition, result, rule_configs, argVars,
                    returned, exitVars, modelVars,
                    sizeVars >>

\* A tick of the live loop alone, on the candle of the previous tick or on
\* a new one.
Tick(r, fresh, proba, enough, prob, done) ==
    /\ fresh => last_candle_time["i1"] < MaxBars
    /\ LiveTick("i1", r, fresh, proba, enough, prob, done)
    /\ row' = r
    /\ UNCHANGED << pc, sym, strategy, stop_event, running,
                    algo_instances, connected, lock, reqPc, provVars,
                    statusPc, condition, result, simVars, runVars, exitVars,
                    modelVars,
                    sizeVars >>

\* One call of _determine_exit_reason for ticket 1 on the deal history and
\* the trade state of the initial state.
DetermineExitReason ==
    /\ determined = "-"
    /\ determined' = determine_exit_reason(deals, 1, trade_state["i1"])
    /\ UNCHANGED << pc, sym, strategy, stop_event, running, loopVars,
                    algo_instances, connected, lock, reqPc, provVars,
                    statusPc, tickVars, evalVars, row, simVars, runVars,
                    deals, modelVars,
                    sizeVars, scoreVars >>

\* One call of _calculate_lot_size on the arguments of the initial state.
CalculateLotSize ==
    /\ actual_volume = << >>
    /\ actual_volume' = << calculate_lot_size(sizing) >>
    /\ UNCHANGED << pc, sym, strategy, stop_event, running, loopVars,
                    algo_instances, connected, lock, reqPc, provVars,
                    statusPc, tickVars, evalVars, row, simVars, runVars,
                    exitVars, modelVars, scoreVars, sizing >>

\* ------------------------------------------------------ specifications
\* Steps of the environment of the loops that do not touch the registry.
Connection == mt5_connect \/ mt5_disconnect

Stream == StreamAcquire \/ StreamReturn

Request == RequestCall \/ \E t \in Tickets \cup {NoTicket} : RequestReturn(t)

Provider == \E t \in Tickets : ProviderClose(t)

Stop == AlgoStopAll \/ \E s \in Symbols : AlgoStop(s)

Status == StatusIterate \/ StatusReturn

Start(I, S) ==
    \/ \E i \in I, s \in Symbols, st \in S : StartCheck(i, s, st)
    \/ \E i \in I : StartRegister(i)

\* One algo_start at a time and the control loop it launches, with every
\* other caller of the channel around it.
Single == {"i1"}

Next ==
    \/ Connection
    \/ Start(Single, Strategies)
    \/ Stop
    \/ \E i \in Single : LoopStep(i, BOOLEAN)
    \/ Stream
    \/ Request
    \/ Provider
    \/ Status

Spec == Init /\ [][Next]_vars

\* Two concurrent algo_start handlers and the two loops they launch, with a
\* trade store that answers and a provider that closes a position only when
\* a loop asks for it.
NextRegistry ==
    \/ Connection
    \/ Start(Inst, {Guarded})
    \/ \E i \in Inst : StartRejected(i)
    \/ Stop
    \/ \E i \in Inst : LoopStep(i, {TRUE})

RegistrySpec == Init /\ [][NextRegistry]_vars

\* One loop and every other caller of the channel, with a trade store that
\* answers every call (the store is an available collaborator); whether it
\* holds an open record for an adopted ticket depends on what it was given.
NextStore ==
    \/ Connection
    \/ Start(Single, Strategies)
    \/ Stop
    \/ \E i \in Single : LoopStep(i, {TRUE})
    \/ \E i \in Single, ok \in BOOLEAN, t \in Tickets \cup {NoTicket} :
          ReconcileReturn(i, ok, t, FALSE)
    \/ Stream
    \/ Request
    \/ Provider
    \/ Status

StoreSpec == Init /\ [][NextStore]_vars

\* The loop threads are scheduled and, by the premise that provider calls
\* return, every holder of the gate releases it; a thread waiting at the gate
\* gets it when it is free often enough.
FairSpec ==
    /\ Spec
    /\ \A i \in Single : SF_vars(LoopStep(i, BOOLEAN))
    /\ WF_vars(StreamReturn)

\* Calls of evaluate_condition on every pair of rows of a two-column frame
\* (the previous row may be None) and every condition of the grid below.
Conditions ==
    [indicator : {"RSI", "Bogus", Absent},
     parameter : {"value", Absent},
     operator : {">", "<", "==", "crosses_above", "crosses_below", "~",
                 Absent},
     value : {Num(1), Str("close"), Str("1"), Str("abc"), None, NoValue}]

EvalRows == [EvalColumns -> Levels \cup {NaN}]

EvalInit ==
    /\ Idle
    /\ posSym = [t \in Tickets |-> NoSym]
    /\ nextTicket = 1
    /\ NoTick
    /\ NoSizing
    /\ rule_configs = << >> /\ bar = 0 /\ sim = sim0 /\ trades = << >>
    /\ SingleRun
    /\ NoClassification
    /\ NoScoring
    /\ condition \in Conditions
    /\ row \in EvalRows
    /\ prev_row \in EvalRows \cup {NoRow}
    /\ result = "-"

EvalSpec == EvalInit /\ [][Evaluate]_vars

\* Backtests of every rule list below on every series of up to MaxBars + 1
\* rows of a frame without NaN (run_backtest drops such rows).
SimRows ==
    {r \in [Columns -> Levels] :
        r.close \in Closes /\ r["ATR_14"] \in {0, 1}}

Short(idx) == RuleConfig(idx, "sell", << RsiCross >>, << >>, 1, 1, 0, 0)
NoEntry(idx) == RuleConfig(idx, "buy", << >>, << RsiLow >>, 1, 1, 0, 0)
Long(idx, sl, tp, slm, mb) ==
    RuleConfig(idx, "buy", << RsiHigh >>, << RsiLow >>, sl, tp, slm, mb)

RuleLists ==
    {<< Long(0, sl, tp, slm, mb), Short(1) >> :
        sl \in {0, 1}, tp \in {0, 1}, slm \in {0, 1}, mb \in MinBars}
    \cup {<< Short(0), Long(1, 1, 1, 0, mb) >> : mb \in MinBars}
    \cup {<< NoEntry(0), Long(1, 1, 1, 0, 0) >>}

SimInit ==
    /\ Idle
    /\ posSym = [t \in Tickets |-> NoSym]
    /\ nextTicket = 1
    /\ NoTick
    /\ NoSizing
    /\ NoEvaluation
    /\ rule_configs \in RuleLists
    /\ row \in SimRows
    /\ bar = 0
    /\ sim = sim0
    /\ trades = << >>
    /\ SingleRun
    /\ NoClassification
    /\ NoScoring

SimNext == \E r \in SimRows : BacktestBar(r)

SimSpec == SimInit /\ [][SimNext]_vars

\* The simulator and one live loop fed the same candles, for one rule with
\* entry and exit conditions and no stop or target of its own (in the live
\* loop those are the provider's).
ParityInit ==
    /\ Idle
    /\ posSym = [t \in Tickets |-> NoSym]
    /\ nextTicket = 1
    /\ NoTick
    /\ NoSizing
    /\ NoEvaluation
    /\ rule_configs \in {<< Long(0, 0, 0, 0, mb) >> : mb \in MinBars}
    /\ row \in SimRows
    /\ bar = 0
    /\ sim = sim0
    /\ trades = << >>
    /\ SingleRun
    /\ NoClassification
    /\ NoScoring

ParityNext == \E r \in SimRows : CandleStep(r)

ParitySpec == ParityInit /\ [][ParityNext]_vars

\* The simulator and one live loop fed the same candles, for rule lists whose
\* first rule, the one the live loop runs, has no entry condition or has one.
EmptyRuleLists ==
    {<< NoEntry(0) >>, << NoEntry(0), Long(1, 1, 1, 0, 0) >>,
     << Long(0, 0, 0, 0, 0) >>}

EmptyRuleInit ==
    /\ Idle
    /\ posSym = [t \in Tickets |-> NoSym]
    /\ nextTicket = 1
    /\ NoTick
    /\ NoSizing
    /\ NoEvaluation
    /\ rule_configs \in EmptyRuleLists
    /\ row \in SimRows
    /\ bar = 0
    /\ sim = sim0
    /\ trades = << >>
    /\ SingleRun
    /\ NoClassification
    /\ NoScoring

EmptyRuleSpec == EmptyRuleInit /\ [][ParityNext]_vars

\* Two backtests of the same frame with the same arguments: a long or a
\* short rule with a stop of 20 pips and a target of 40 pips, with or without
\* an exit condition, on every frame of MaxBars + 1 rows of the candles
\* below (prices in pips: 11000 is 1.1000).
PathRows ==
    {[c \in Columns |-> IF c = "close" THEN x[1]
                        ELSE IF c = "RSI_14" THEN x[2] ELSE 1] :
        x \in {<< 11000, 2 >>, << 10990, 0 >>, << 10978, 1 >>,
               << 10978, 0 >>, << 11040, 1 >>}}

PathRules ==
    {<< RuleConfig(0, dir, << RsiHigh >>, exit, 20, 40, 0, 0) >> :
        dir \in {"buy", "sell"}, exit \in {<< >>, << RsiLow >>}}

PathInit ==
    /\ Idle
    /\ posSym = [t \in Tickets |-> NoSym]
    /\ nextTicket = 1
    /\ NoTick
    /\ NoSizing
    /\ NoEvaluation
    /\ rule_configs \in PathRules
    /\ df \in [1..(MaxBars + 1) -> PathRows]
    /\ initial_balance = DefaultBalance
    /\ risk_per_trade = DefaultRisk
    /\ row = df[1]
    /\ bar = 0
    /\ sim = sim0
    /\ trades = << >>
    /\ balance = initial_balance
    /\ equity_curve = << initial_balance >>
    /\ returned = << >>
    /\ NoClassification
    /\ NoScoring

PathNext == BacktestFrameBar \/ BacktestReturn

PathSpec == PathInit /\ [][PathNext]_vars

\* Ticks of one live loop, several to a candle, for one rule with entry and
\* exit conditions and every state of the model files.
TickRows ==
    {r \in [Columns -> Levels] : r.close = 1 /\ r["ATR_14"] = 1}

TickInit ==
    /\ Idle
    /\ posSym = [t \in Tickets |-> NoSym]
    /\ nextTicket = 1
    /\ NoTick
    /\ NoSizing
    /\ NoEvaluation
    /\ rule_configs \in {<< Long(0, 0, 0, 0, mb) >> : mb \in MinBars}
    /\ row \in TickRows
    /\ bar = 0
    /\ sim = sim0
    /\ trades = << >>
    /\ SingleRun
    /\ NoClassification
    /\ ml_model \in MlModels
    /\ lstm_model \in LstmModels
    /\ Unscored

\* The scoring models are asked only by a tick of a flat loop.
TickNext ==
    \/ /\ ~in_position["i1"]
       /\ \E r \in TickRows, fresh, enough, done \in BOOLEAN,
             proba \in {40, 70}, prob \in {40, 50, 60} :
             Tick(r, fresh, proba, enough, prob, done)
    \/ /\ in_position["i1"]
       /\ \E r \in TickRows, fresh, done \in BOOLEAN :
             Tick(r, fresh, 0, FALSE, 0, done)

TickSpec == TickInit /\ [][TickNext]_vars

\* Calls of _determine_exit_reason for a position with a stop at 1.0980 and
\* a target at 1.1050, either of which may be None, or with no trade state,
\* on deal histories that hold the closing deal of the ticket or not.
ExitPrices ==
    {1098000, 1098010, 1098012, 1100000, 1105000, 1105011, 1105100}

DealLists ==
    {Raises, Deals(<< >>)}
    \cup {Deals(<< Deal("in", 1, 1100000), Deal("out", 1, p) >>) :
             p \in ExitPrices}
    \cup {Deals(<< Deal("out", 2, p), Deal("out", 1, q) >>) :
             p \in {1098000, 1105000}, q \in ExitPrices}
    \cup {Deals(<< Deal("out", 2, p) >>) : p \in {1098000, 1105000}}

ExitInit ==
    /\ pc = [i \in Inst |-> IF i = "i1" THEN "deals" ELSE "none"]
    /\ sym = [i \in Inst |-> IF i = "i1" THEN "EURUSDm" ELSE NoSym]
    /\ strategy = [i \in Inst |-> IF i = "i1" THEN Guarded ELSE NoStrategy]
    /\ stop_event = [i \in Inst |-> FALSE]
    /\ running = [i \in Inst |-> i = "i1"]
    /\ in_position = [i \in Inst |-> i = "i1"]
    /\ position_ticket = [i \in Inst |-> IF i = "i1" THEN 1 ELSE NoTicket]
    /\ trade_id \in {[i \in Inst |-> b /\ i = "i1"] : b \in BOOLEAN}
    /\ \E sl \in {NoPrice, 1098000}, tp \in {NoPrice, 1105000},
          held \in BOOLEAN :
          trade_state =
              [i \in Inst |-> IF i = "i1" /\ held
                              THEN TradeState(1, sl, tp, 1)
                              ELSE NoTradeState]
    /\ algo_instances =
          [s \in Symbols |-> IF s = "EURUSDm" THEN "i1" ELSE NoInst]
    /\ connected = TRUE
    /\ lock = Free
    /\ reqPc = "idle"
    /\ statusPc = "idle"
    /\ posSym = [t \in Tickets |-> NoSym]
    /\ nextTicket = 2
    /\ NoTick
    /\ NoSizing
    /\ NoEvaluation
    /\ NoBacktest
    /\ deals \in DealLists
    /\ determined = "-"
    /\ NoScoring

ExitSpec == ExitInit /\ [][DetermineExitReason]_vars

\* Calls of _calculate_lot_size for an account with negative, no, small and
\* large equity, stop distances from none to 250 points, and instruments
\* with a minimum of 0.01 or 0.1 lots, a maximum of 1 or 50 lots and a step
\* of 0.01 or 0.1 lots.
LotInit ==
    /\ Idle
    /\ posSym = [t \in Tickets |-> NoSym]
    /\ nextTicket = 1
    /\ NoTick
    /\ NoEvaluation
    /\ NoBacktest
    /\ NoClassification
    /\ NoScoring
    /\ sizing \in
          {LotArgs(eq, risk, sl, tv, ts, vmin, vmax, step) :
              eq \in {-100, 0, 1000, 10000}, risk \in {1, 2},
              sl \in {-5, 0, 20, 80, 250}, tv \in {0, 1}, ts \in {0, 1},
              vmin \in {1, 10}, vmax \in {100, 5000}, step \in {1, 10}}
    /\ actual_volume = << >>

LotSpec == LotInit /\ [][CalculateLotSize]_vars

\* What threading.Lock gives the callers of the gate: every holder releases
\* it (provider calls return) and a thread that can run without interruption
\* does run, but which of the threads blocked in acquire() proceeds at a
\* release is not defined, so nothing stronger than weak fairness holds for a
\* waiting loop.
GateSpec ==
    /\ Spec
    /\ \A i \in Single : WF_vars(LoopStep(i, BOOLEAN))
    /\ WF_vars(StreamReturn)
    /\ WF_vars(\E t \in Tickets \cup {NoTicket} : RequestReturn(t))

\* ---------------------------------------------------------- properties
Live(i) == pc[i] \in ThreadPcs
ShutdownPcs == {"final_close", "dereg"}

\* Local state of the instance in slot j is the same after the step.
SameInstance(j) ==
    /\ pc'[j] = pc[j]
    /\ sym'[j] = sym[j]
    /\ strategy'[j] = strategy[j]
    /\ stop_event'[j] = stop_event[j]
    /\ running'[j] = running[j]
    /\ in_position'[j] = in_position[j]
    /\ position_ticket'[j] = position_ticket[j]
    /\ trade_id'[j] = trade_id[j]

\* Callers that are inside a connector function.
InChannel ==
    {i \in Inst : lock = i \/ pc[i] = "deals"}
        \cup (IF lock = SSE THEN {SSE} ELSE {})
        \cup (IF reqPc = "call" THEN {"request"} ELSE {})

\* C1: at no time do two control-loop threads run for the same symbol (of
\* two concurrent start calls for one symbol only one launches a loop).
C1_OneLoopPerSymbol ==
    \A i, j \in Inst : (i # j /\ Live(i) /\ Live(j)) => sym[i] # sym[j]

\* C2: at no time are two calls to the provider connector in progress, whoever
\* the callers are.
C2_ChannelSerialized == Cardinality(InChannel) <= 1

\* C3: when a loop thread ends while it tracks a position, that position is
\* closed at the provider.
C3_ClosedBeforeExit ==
    [][\A i \in Inst :
          (pc[i] = "dereg" /\ pc'[i] = "none" /\ in_position[i]
              /\ position_ticket[i] # NoTicket)
            => posSym'[position_ticket[i]] = NoSym]_vars

\* C4: no loop thread is created or registered for a rule that has neither
\* exit conditions nor a stop loss.
C4_NoUnlimitedRiskLoop ==
    \A i \in Inst : Live(i) => (strategy[i].exit \/ strategy[i].sl)

\* C5: a loop that starts while the provider holds a position on its symbol
\* leaves startup IN_POSITION on one of those tickets, and no loop submits an
\* entry order while a position on its symbol is open.
C5_AdoptsExistingPosition ==
    /\ [][\A i \in Inst :
            (pc[i] = "reconcile" /\ pc'[i] # "reconcile"
                /\ OpenOn(sym[i]) # {})
              => (in_position'[i] /\ position_ticket'[i] \in OpenOn(sym[i]))
         ]_vars
    /\ [](\A i \in Inst : pc[i] = "place" => OpenOn(sym[i]) = {})

\* C6: a loop that finds the connection lost at its tick boundary goes to its
\* shutdown without starting the tick, a loop in shutdown never returns to a
\* tick (so it submits no entry order), and its exit removes the entry of its
\* own symbol and changes neither the entry of another symbol nor the state
\* of another loop.
C6_ConnectionLossFatal ==
    [][\A i \in Inst :
          /\ (pc[i] = "top" /\ ~connected /\ pc'[i] # "top")
                => pc'[i] \in ShutdownPcs
          /\ pc[i] \in ShutdownPcs => pc'[i] \in ShutdownPcs \cup {"none"}
          /\ (pc[i] = "dereg" /\ pc'[i] = "none")
                => /\ algo_instances'[sym[i]] = NoInst
                   /\ \A s \in Symbols \ {sym[i]} :
                         algo_instances'[s] = algo_instances[s]
                   /\ \A j \in Inst \ {i} : SameInstance(j)
      ]_vars

\* A loop in a position is closing down after a connection loss (no stop was
\* signalled) while a loop on another symbol is alive.
C6_Witness ==
    \E i, j \in Inst :
        /\ pc[i] = "final_close" /\ ~stop_event[i] /\ ~connected
        /\ j # i /\ Live(j) /\ sym[j] # sym[i] /\ algo_instances[sym[j]] = j

\* A provider call of the main loop ends in failure.
TickCallFails(i) ==
    \/ PriceReturn(i, FALSE)
    \/ \E sig \in BOOLEAN : HistoryReturn(i, FALSE, sig)
    \/ \E saved \in BOOLEAN : PlaceReturn(i, FALSE, saved)
    \/ CloseReturn(i, FALSE)
    \/ PollReturn(i, FALSE)

\* C7: when a provider call fails inside a tick (price, candles, order, close,
\* positions poll) the loop stays in its main loop (at the tick boundary, or
\* at the poll that follows a failed close), stays registered as it was, and
\* keeps its position state and ticket.
C7_TickFailureNonFatal ==
    [][\A i \in Inst :
          TickCallFails(i)
            => /\ pc'[i] \in {"top", "poll"}
               /\ algo_instances' = algo_instances
               /\ in_position'[i] = in_position[i]
               /\ position_ticket'[i] = position_ticket[i]
               /\ trade_id'[i] = trade_id[i]
      ]_vars

\* A loop in a position is at its close request or positions poll and the
\* connector is gone: the call can only fail.
C7_Witness ==
    \E i \in Inst :
        /\ pc[i] \in {"close", "poll"}
        /\ in_position[i]
        /\ ~connected
        /\ algo_instances[sym[i]] = i

C9_DuplicateStartRejected ==
    [][\A i \in Inst :
          /\ (pc[i] = "none" /\ pc'[i] # "none"
                  /\ algo_instances[sym'[i]] # NoInst)
                => /\ pc'[i] = "rejected"
                   /\ algo_instances' = algo_instances
                   /\ \A j \in Inst \ {i} : SameInstance(j)
          /\ pc[i] = "rejected"
                => /\ pc'[i] \in {"rejected", "none"}
                   /\ pc'[i] = "none"
                        => /\ algo_instances' = algo_instances
                           /\ \A j \in Inst \ {i} : SameInstance(j)
      ]_vars

\* A start call has been rejected while the loop registered for its symbol
\* is in a tick.
C9_Witness ==
    \E i \in Inst :
        /\ pc[i] = "rejected"
        /\ algo_instances[sym[i]] \in Inst \ {i}
        /\ pc[algo_instances[sym[i]]] \in TickPcs

\* C10: a loop inside a tick never goes to its shutdown logic, whether the
\* stop event is set or not: an order submission in flight returns to the
\* tick boundary with its result; shutdown starts without the gate held; and
\* a loop that sees the stop event at the tick boundary starts no new tick.
C10_CooperativeStop ==
    [][\A i \in Inst :
          /\ pc[i] \in TickPcs => pc'[i] \notin ShutdownPcs
          /\ (pc[i] = "place" /\ pc'[i] # "place") => pc'[i] = "top"
          /\ (pc[i] \notin ShutdownPcs /\ pc'[i] \in ShutdownPcs)
                => lock' # i
          /\ (pc[i] = "top" /\ stop_event[i] /\ pc'[i] # "top")
                => pc'[i] \in ShutdownPcs
      ]_vars

\* The stop event is set while the loop is inside place_trade.
C10_Witness ==
    \E i \in Inst : pc[i] = "place" /\ lock = i /\ stop_event[i]

\* C11: no thread other than a loop's own writes a field of that loop's
\* state: every step that changes running, in_position, position_ticket or
\* the open trade-record id of a live loop is a step of that loop's thread
\* (start, stop and status leave a running loop's state as it is).
C11_LoopOwnsState ==
    [][\A i \in Inst :
          (Live(i) /\ << running[i], in_position[i], position_ticket[i],
                         trade_id[i] >>
                      # << running'[i], in_position'[i],
                           position_ticket'[i], trade_id'[i] >>)
            => LoopStep(i, BOOLEAN)
      ]_vars

\* C12: the gate is starvation-free: a loop that waits for the gate is
\* eventually granted it, however often stream subscribers and other
\* callers take the gate, provided every holder releases it (a wait also
\* ends when the connector is gone, since the call then fails without the
\* gate).
C12_GateStarvationFree ==
    \A i \in Inst :
        (pc[i] \in GateSites /\ lock # i)
            ~> (lock = i \/ pc[i] \notin GateSites \/ ~connected)

\* C13: at every moment the status endpoint and the stream's status event
\* report a symbol as running if and only if the registry holds an entry for
\* that symbol.
C13_StatusMatchesRegistry ==
    \A s \in Symbols :
        /\ algo_status(s).running <=> algo_instances[s] # NoInst
        /\ sse_algo_event(s).running <=> algo_instances[s] # NoInst

\* C14: the registry map does not change while a reader is iterating it:
\* readers and writers exclude each other through the registry lock.
C14_RegistryLocked ==
    [][statusPc = "iter" => algo_instances' = algo_instances]_vars

\* C15: fed the same candle rows and the same rule, the simulator and the
\* live loop are in a position after the same candles: they enter on the
\* same candle and take a rule-defined exit on the same candle.
C15_SameDecisions ==
    sim.in_position = in_position["i1"]

\* C16: evaluate_condition never raises: every call returns true or false.
C16_EvaluateNeverRaises ==
    result \in {"-", "true", "false"}

\* C17: a CROSSES_ABOVE call is true if and only if a previous row exists,
\* the previous value is <= the target in the previous row and the current
\* value is > the target in the current row, a literal target being the same
\* in both rows; CROSSES_BELOW is the mirror; with no previous row both are
\* false.
C17_CrossesFlip ==
    LET Known(r, c) == c \in DOMAIN r /\ r[c] # NaN
        col == IF condition.indicator = "RSI" THEN "RSI_14" ELSE "none"
        lit == condition.value.kind = "num"
                  \/ (condition.value.kind = "str"
                        /\ condition.value.name \in {"0", "1", "2"})
        ref == condition.value.kind = "str"
                  /\ condition.value.name = "close"
        Target(r) == IF condition.value.kind = "num"
                     THEN condition.value.num
                     ELSE IF ref THEN r.close
                     ELSE IF condition.value.name = "1" THEN 1
                     ELSE IF condition.value.name = "2" THEN 2 ELSE 0
        Defined(r) == /\ r # NoRow
                      /\ Known(r, col)
                      /\ lit \/ (ref /\ Known(r, "close"))
        above == /\ Defined(prev_row) /\ Defined(row)
                 /\ prev_row[col] <= Target(prev_row)
                 /\ row[col] > Target(row)
        below == /\ Defined(prev_row) /\ Defined(row)
                 /\ prev_row[col] >= Target(prev_row)
                 /\ row[col] < Target(row)
    IN  result # "-" =>
          /\ condition.operator = "crosses_above"
                => (result = "true" <=> above)
          /\ condition.operator = "crosses_below"
                => (result = "true" <=> below)
          /\ (condition.operator \in {"crosses_above", "crosses_below"}
                  /\ prev_row = NoRow)
                => result # "true"

\* The value series crossed above the target series between two rows.
C17_Witness ==
    /\ result = "true"
    /\ condition.operator = "crosses_above"
    /\ condition.value = Str("close")
    /\ prev_row # NoRow
    /\ prev_row.close # row.close

\* C18: for a GT, LT or EQ condition the result depends only on the current
\* row: the call with any other previous row, or none, returns the same.
C18_CurrentRowOnly ==
    (result # "-" /\ condition.operator \in {">", "<", "=="})
        => \A p \in EvalRows \cup {NoRow} :
              evaluate_condition(row, p, condition) = result

\* A GT condition holds on the current row with no previous row at all.
C18_Witness ==
    /\ result = "true"
    /\ condition.operator = ">"
    /\ prev_row = NoRow

\* C19: while flat, on each bar the simulator opens a position for the rule
\* of lowest list index whose (non-empty) entry conditions are all true on
\* the bar, also when later rules match, and stays flat when none matches;
\* the trade that results records that rule's index and direction.
C19_FirstMatchWins ==
    [][/\ (~sim.in_position /\ bar' = bar + 1) =>
            LET M == {k \in 1..Len(rule_configs) :
                        /\ rule_configs[k].entry_conditions # << >>
                        /\ \A n \in 1..Len(rule_configs[k].entry_conditions) :
                              evaluate_condition(row', row,
                                  rule_configs[k].entry_conditions[n])
                                = "true"}
            IN  /\ sim'.in_position <=> M # {}
                /\ M # {} =>
                      /\ sim'.active_rc \in M
                      /\ \A m \in M : sim'.active_rc <= m
                      /\ sim'.active_direction =
                            rule_configs[sim'.active_rc].direction
                      /\ sim'.entry_index = bar'
       /\ Len(trades') > Len(trades) =>
            /\ sim.in_position
            /\ trades'[Len(trades')].rule_index = sim.active_rc - 1
            /\ trades'[Len(trades')].direction =
                  rule_configs[sim.active_rc].direction
            /\ trades'[Len(trades')].entry_time = sim.entry_index
      ]_vars

\* The first rule opened a short on a bar where the second rule's entry
\* condition holds as well.
C19_Witness ==
    /\ sim.in_position
    /\ sim.entry_index = bar
    /\ sim.active_rc = 1
    /\ sim.active_direction = "sell"
    /\ Len(rule_configs) = 2
    /\ rule_configs[2].entry_conditions = << RsiHigh >>
    /\ row["RSI_14"] = 2

\* C20: while in a position, on every bar where realized pips <= -stop
\* distance or realized pips >= target distance the trade is closed on
\* that bar, also when bars_held < min_bars.
C20_StopsNotGated ==
    [][(sim.in_position /\ bar' = bar + 1) =>
          LET pnl == IF sim.active_direction = "buy"
                     THEN row'.close - sim.entry_price
                     ELSE sim.entry_price - row'.close
              hit == \/ sim.effective_sl_pips > 0
                          /\ pnl <= -sim.effective_sl_pips
                     \/ sim.effective_tp_pips > 0
                          /\ pnl >= sim.effective_tp_pips
          IN  hit => /\ ~sim'.in_position
                     /\ Len(trades') = Len(trades) + 1
                     /\ trades'[Len(trades')].exit_time = bar'
                     /\ trades'[Len(trades')].pnl_pips = pnl
      ]_vars

\* A trade was stopped out before its rule's min_bars had passed.
C20_Witness ==
    \E n \in 1..Len(trades) :
        /\ trades[n].exit_reason = "stop_loss"
        /\ trades[n].exit_time - trades[n].entry_time
              < rule_configs[trades[n].rule_index + 1].min_bars
\* C21: every trade the simulator appends to its ledger has exit_reason
\* stop_loss, take_profit or strategy_exit, and a trade appended with
\* exit_reason stop_loss had a stop distance and lost at least that many
\* pips.
C21_LedgerReasons ==
    [][Len(trades') > Len(trades) =>
          LET t == trades'[Len(trades')]
          IN  /\ Len(trades') = Len(trades) + 1
              /\ SubSeq(trades', 1, Len(trades)) = trades
              /\ t.exit_reason \in
                     {"stop_loss", "take_profit", "strategy_exit"}
              /\ t.exit_reason = "stop_loss" =>
                     /\ sim.effective_sl_pips > 0
                     /\ t.pnl_pips <= -sim.effective_sl_pips]_vars

\* C21 happens: the ledger holds a stop_loss trade that lost 22 pips on a
\* stop of 20, and the position open now shows a loss smaller than its stop.
C21_Witness ==
    /\ \E k \in 1..Len(trades) :
          /\ trades[k].exit_reason = "stop_loss"
          /\ trades[k].pnl_pips = -22
    /\ sim.in_position /\ sim.effective_sl_pips = 20
    /\ row.close - sim.entry_price = -10

C23_StopScenario ==
    [][(/\ sim.in_position
        /\ sim.active_direction = "buy"
        /\ sim.entry_price = 11000
        /\ sim.effective_sl_pips = 20
        /\ sim.effective_tp_pips = 40
        /\ rule_configs[sim.active_rc].exit_conditions = << >>
        /\ bar' = bar + 1
        /\ row'.close = 10978)
       => /\ Len(trades') = Len(trades) + 1
          /\ trades'[Len(trades')].exit_reason = "stop_loss"
          /\ trades'[Len(trades')].pnl_pips = -22
          /\ trades'[Len(trades')].exit_price = 10978
          /\ ~sim'.in_position]_vars

\* C23 happens: the ledger holds the trade of the scenario, closed after a
\* bar on which the position stayed open.
C23_Witness ==
    /\ rule_configs[1].exit_conditions = << >>
    /\ \E k \in 1..Len(trades) :
          /\ trades[k].direction = "buy"
          /\ trades[k].entry_price = 11000
          /\ trades[k].exit_price = 10978
          /\ trades[k].exit_reason = "stop_loss"
          /\ trades[k].exit_time > trades[k].entry_time + 1

\* C24: when the history holds the closing deal of the tracked ticket at
\* 1.1051 and the trade state records the stop 1.0980 and the target 1.1050,
\* _determine_exit_reason returns take_profit.
C24_TargetNearPrice ==
    (/\ determined # "-"
     /\ trade_state["i1"] = TradeState(1, 1098000, 1105000, 1)
     /\ \E k \in out_deals(deals, 1) : deals.list[k].price = 1105100)
    => determined = "take_profit"

\* The last tick of loop i submitted an order / had its order filled.
OrderSubmitted(i) ==
    /\ signals[i] # << >>
    /\ signals[i][Len(signals[i])] \in {"buy", "sell", "error"}
OrderFilled(i) ==
    /\ signals[i] # << >>
    /\ signals[i][Len(signals[i])] \in {"buy", "sell"}

\* C25: on a tick of a flat loop whose entry conditions all hold, when the
\* confidence model is absent, unreadable, mismatched or fails to score,
\* the scorer's result has pass = true and the order is submitted as
\* without a scorer, the loop being in a position after the tick exactly
\* when the order was filled; and whenever the direction model is absent,
\* unreadable or fails, the prediction of that tick is neutral.
C25_ScorersFailOpen ==
    [][LET rule == rule_configs[1]
           all_entry == /\ all_met(rule.entry_conditions, row', prev_row')
                        /\ Len(rule.entry_conditions) > 0
       IN  (~in_position["i1"] /\ all_entry) =>
              /\ ml_model # "scores" =>
                    /\ ml_confidence'["i1"].pass
                    /\ ~ml_confidence'["i1"].model_loaded
                    /\ OrderSubmitted("i1")'
                    /\ in_position'["i1"] =>
                          /\ position_ticket'["i1"] # NoTicket
                          /\ bars_in_trade'["i1"] = 1
              /\ lstm_model # "predicts" =>
                    lstm_result'["i1"].direction = "neutral"
              /\ OrderSubmitted("i1")' = ml_confidence'["i1"].pass
              /\ in_position'["i1"] = OrderFilled("i1")'
      ]_vars

\* C25 happens: the loop is in a position it entered with both models
\* failing to score.
C25_Witness ==
    /\ ml_model = "raises" /\ lstm_model = "raises"
    /\ in_position["i1"]
    /\ ml_confidence["i1"] = Bypass
    /\ lstm_result["i1"] = Neutral
    /\ trade_state["i1"].entry_time > 1

\* C26: at every tick boundary of a loop its tracked ticket and its trade
\* state are set exactly when it is in a position; and a running loop sets
\* them only by a step after which the ticket is open at the provider on
\* its symbol (fill, adoption) and clears them only by a step after which
\* the ticket is no longer open (confirmed close, detected external close).
C26_PositionData ==
    /\ [](\A i \in Inst : pc[i] = "top" =>
            /\ in_position[i] <=> position_ticket[i] # NoTicket
            /\ in_position[i] <=> trade_state[i] # NoTradeState
            /\ in_position[i] => trade_state[i].ticket = position_ticket[i])
    /\ [][\A i \in Inst : (Live(i) /\ pc[i] # "dereg") =>
            /\ (trade_state[i] = NoTradeState
                    /\ trade_state'[i] # NoTradeState)
                 => /\ pc[i] \in {"place", "reconcile"}
                    /\ posSym'[position_ticket'[i]] = sym[i]
            /\ (trade_state[i] # NoTradeState
                    /\ trade_state'[i] = NoTradeState)
                 => /\ pc[i] \in {"close", "deals"}
                    /\ posSym'[position_ticket[i]] = NoSym
            /\ (position_ticket[i] = NoTicket)
                 = (trade_state[i] = NoTradeState)
            /\ (position_ticket'[i] = NoTicket)
                 = (trade_state'[i] = NoTradeState)
       ]_vars

\* C26 happens: a loop is at a tick boundary in its second position, after
\* the data of the first was set and cleared.
C26_Witness ==
    /\ pc["i1"] = "top"
    /\ in_position["i1"]
    /\ trade_state["i1"].ticket = 2
    /\ posSym[1] = NoSym

\* C27: every step of a loop that closes its open trade record writes an
\* exit_reason among stop_loss, take_profit, strategy_exit, external and
\* forced_stop, and the step of the finally block writes forced_stop.
C27_RecordReasons ==
    [][\A i \in Inst : (trade_id[i] /\ ~trade_id'[i]) =>
          /\ close_algo_trade_reasons(i) \subseteq
                {"stop_loss", "take_profit", "strategy_exit", "external",
                 "forced_stop"}
          /\ pc[i] = "dereg" => close_algo_trade_reasons(i) = {"forced_stop"}
      ]_vars

\* C28: a loop that leaves its ticks while in a position reaches the removal
\* of its registry entry only through the forced close, and that close call
\* went through the gate to the provider.
C28_CloseRequested ==
    [][\A i \in Inst :
          (pc[i] # "dereg" /\ pc'[i] = "dereg" /\ in_position[i]) =>
              /\ pc[i] = "final_close"
              /\ lock = i
      ]_vars

\* C29: a trade is appended with exit_reason strategy_exit only on a bar
\* where bars_held >= min_bars of the rule that opened the position, that
\* rule has exit conditions, and every one of them evaluates to true on the
\* bar.
C29_StrategyExitGated ==
    [][(Len(trades') > Len(trades)
          /\ trades'[Len(trades')].exit_reason = "strategy_exit") =>
          LET rc == rule_configs[sim.active_rc]
          IN  /\ sim.in_position
              /\ bar' - sim.entry_index >= rc.min_bars
              /\ rc.exit_conditions # << >>
              /\ \A k \in 1..Len(rc.exit_conditions) :
                    evaluate_condition(row', row, rc.exit_conditions[k])
                        = "true"
              /\ trades'[Len(trades')].rule_index = rc.index
      ]_vars

\* C29 happens: a rule with min_bars 2 closed a trade by its exit
\* conditions on the second bar after the entry.
C29_Witness ==
    \E k \in 1..Len(trades) :
        /\ trades[k].exit_reason = "strategy_exit"
        /\ trades[k].exit_time - trades[k].entry_time = 2
        /\ rule_configs[trades[k].rule_index + 1].min_bars = 2

\* C30: a loop in a position adds 1 to bars_in_trade only on a tick whose
\* candle is not the candle of the previous tick, and its rule-defined
\* close happens only on a tick where the candle has changed at least
\* min_bars times since the entry and all exit conditions hold.
C30_ExitAfterMinBars ==
    [][LET rule == rule_configs[1]
       IN  /\ (in_position["i1"]
                 /\ bars_in_trade'["i1"] = bars_in_trade["i1"] + 1)
               => last_candle_time'["i1"] # last_candle_time["i1"]
           /\ (in_position["i1"] /\ ~in_position'["i1"])
               => /\ last_candle_time'["i1"]
                        - trade_state["i1"].entry_time >= rule.min_bars
                  /\ rule.exit_conditions # << >>
                  /\ all_met(rule.exit_conditions, row', prev_row')
      ]_vars

C32_BlockedEntry ==
    [][LET rule == rule_configs[1]
           all_entry == /\ all_met(rule.entry_conditions, row', prev_row')
                        /\ Len(rule.entry_conditions) > 0
       IN  (~in_position["i1"] /\ all_entry
               /\ ~ml_confidence'["i1"].pass) =>
              /\ signals'["i1"] = << "ml_skip" >>
              /\ lstm_result'["i1"] = Neutral
              /\ ~in_position'["i1"]
              /\ position_ticket'["i1"] = NoTicket
              /\ trade_state'["i1"] = NoTradeState
              /\ ~trade_id'["i1"]
              /\ bars_in_trade'["i1"] = bars_in_trade["i1"]
      ]_vars

\* C32 happens: the last tick of a flat loop, on its third candle or later,
\* had its entry blocked by a confidence of 40 %.
C32_Witness ==
    /\ signals["i1"] = << "ml_skip" >>
    /\ ~in_position["i1"]
    /\ ml_confidence["i1"].score = 40
    /\ ~ml_confidence["i1"].pass
    /\ last_candle_time["i1"] >= 3

\* C33: the equity curve of a backtest starts with the initial balance and
\* gets one value per iteration of the bar loop, the balance after the bar;
\* the value differs from the one before it only on a bar that appends a
\* trade to the ledger, and then by the profit of that trade (which the
\* ledger keeps rounded to two decimals); on every other bar, those of an
\* open position included, it repeats the value before it.
C33_EquityCurve ==
    /\ [](/\ Len(equity_curve) = bar + 1
          /\ equity_curve[1] = initial_balance
          /\ equity_curve[Len(equity_curve)] = balance)
    /\ [][bar' = bar + 1 =>
            LET n == Len(equity_curve)
                step == equity_curve'[n + 1] - equity_curve[n]
            IN  /\ Len(equity_curve') = n + 1
                /\ SubSeq(equity_curve', 1, n) = equity_curve
                /\ IF Len(trades') > Len(trades)
                   THEN /\ step = profit(row')
                        /\ trades'[Len(trades')].profit = round2(step)
                   ELSE step = 0
       ]_vars

\* C33 happens: after four bars the curve shows the loss of the trade that
\* was closed and, for the bars of the position that is open now (10 pips
\* under water at the last one), the balance after that loss.
C33_Witness ==
    /\ returned = << >>
    /\ bar >= 4
    /\ Len(trades) = 1
    /\ sim.in_position
    /\ sim.entry_index < bar
    /\ pnl_pips(row) = -10
    /\ equity_curve[bar + 1] = equity_curve[bar]
    /\ equity_curve[bar + 1] < initial_balance

\* C34: the size _calculate_lot_size returns lies between volume_min and
\* volume_max; unless it is one of these two it is a whole multiple of
\* volume_step, the one nearest to the risked amount divided by the value
\* of the stop distance per lot; and it is volume_min when the stop
\* distance, the tick size or the tick value is not positive.
C34_LotSize ==
    actual_volume # << >> =>
        LET a == sizing
            v == actual_volume[1]
            n == a.equity * a.risk_percent * a.tick_size
            d == a.sl_distance * a.tick_value * a.volume_step
        IN  /\ a.volume_min <= v /\ v <= a.volume_max
            /\ (a.sl_distance <= 0 \/ a.tick_size <= 0 \/ a.tick_value <= 0)
                  => v = a.volume_min
            /\ v \notin {a.volume_min, a.volume_max} =>
                  /\ v % a.volume_step = 0
                  /\ 2 * abs((v \div a.volume_step) * d - n) <= d

\* C34 happens: 1 % of 1000 at a stop of 80 points is 0.125 lots, returned
\* as 0.12 lots for a step of 0.01 between a minimum of 0.01 and a maximum
\* of 1 lot.
C34_Witness ==
    /\ sizing = LotArgs(1000, 1, 80, 1, 1, 1, 100, 1)
    /\ actual_volume = << 12 >>

\* C35: every loop thread that runs is the instance the registry holds for
\* its symbol, and a registry entry is removed only by the last step of the
\* loop thread of the instance it holds.
C35_RunningIsRegistered ==
    /\ [](\A i \in Inst : Live(i) => algo_instances[sym[i]] = i)
    /\ [][\A s \in Symbols :
            (algo_instances[s] # NoInst /\ algo_instances'[s] = NoInst) =>
                /\ pc[algo_instances[s]] = "dereg"
                /\ pc'[algo_instances[s]] = "none"
       ]_vars

\* C36: a trade closed on a bar where the pips of the position are at or
\* below minus the stop distance is labelled stop_loss, and one closed on a
\* bar where they are at or above the target distance is labelled
\* take_profit, whatever the exit conditions of the rule give on that bar.
C36_StopTargetLabels ==
    [][Len(trades') > Len(trades) =>
          LET closed == trades'[Len(trades')]
          IN  /\ (sim.effective_sl_pips # 0
                    /\ pnl_pips(row') <= -sim.effective_sl_pips)
                  => closed.exit_reason = "stop_loss"
              /\ (sim.effective_tp_pips # 0
                    /\ pnl_pips(row') >= sim.effective_tp_pips)
                  => closed.exit_reason = "take_profit"
      ]_vars

C39_OnePosition ==
    /\ [](/\ \A k \in 1..Len(trades) :
                /\ trades[k].entry_time < trades[k].exit_time
                /\ trades[k].exit_time <= bar
                /\ k < Len(trades) =>
                      trades[k].exit_time < trades[k + 1].entry_time
          /\ (sim.in_position /\ trades # << >>) =>
                trades[Len(trades)].exit_time < sim.entry_index)
    /\ [][Len(trades') > Len(trades) =>
            /\ sim.in_position
            /\ ~sim'.in_position
            /\ Len(trades') = Len(trades) + 1
       ]_vars

\* C39 happens: the first rule's position was stopped out on a bar whose
\* row meets that rule's entry condition, the simulator opened no position
\* on that bar, and it opened the next one on the bar after.
C39_Witness ==
    /\ Len(trades) = 1
    /\ trades[1].exit_reason = "stop_loss"
    /\ trades[1].rule_index = 0
    /\ rule_configs[1].entry_conditions = << RsiHigh >>
    /\ sim.in_position
    /\ sim.entry_index = trades[1].exit_time + 1
    /\ bar = sim.entry_index
    /\ row["RSI_14"] = 2

\* C40: a rule without entry conditions never opens a position. The
\* simulator is in a position only of a rule that has entry conditions, and
\* every trade of its ledger is of such a rule; the live loop, which starts
\* flat here, submits no order and is in no position while the rule it runs
\* has no entry condition.
C40_EmptyEntryNeverOpens ==
    /\ [](/\ sim.in_position =>
                rule_configs[sim.active_rc].entry_conditions # << >>
          /\ \A k \in 1..Len(trades) :
                \E m \in 1..Len(rule_configs) :
                    /\ rule_configs[m].index = trades[k].rule_index
                    /\ rule_configs[m].entry_conditions # << >>
          /\ rule_configs[1].entry_conditions = << >> =>
                /\ ~in_position["i1"]
                /\ ~OrderSubmitted("i1")
                /\ ~trade_id["i1"])
    /\ [][(\A m \in 1..Len(rule_configs) :
              rule_configs[m].entry_conditions = << >>)
          => (~sim'.in_position /\ trades' = << >>)
       ]_vars

\* C40 happens: three candles have reached the simulator and the live loop
\* of a rule list whose only rule has no entry condition; neither is in a
\* position, the ledger is empty and the last tick gave no signal.
C40_Witness ==
    /\ rule_configs = << NoEntry(0) >>
    /\ bar = 3
    /\ last_candle_time["i1"] = 3
    /\ ~sim.in_position
    /\ trades = << >>
    /\ ~in_position["i1"]
    /\ signals["i1"] = << >>

====
